---- MODULE Spec2Model ----
(***************************************************************************)
(* A model of download_pdfs.py: the asyncio pipeline that discovers PDF    *)
(* links, downloads them under a 128-permit semaphore, and then sweeps the *)
(* download directory (duplicate names, duplicate content, non-PDF files,  *)
(* title rename).                                                          *)
(*                                                                         *)
(* The run-loop is single-threaded and cooperative: one action of the      *)
(* model is the code a task runs between two suspension points (await).    *)
(***************************************************************************)
EXTENDS Integers, Sequences, FiniteSets, TLC

VARIABLES
    pc,              \* position of main_async
    files,           \* DOWNLOAD_DIR: file name -> content, for the *.pdf entries
    found,           \* collected_urls, the result of collect_pdf_urls_from_sources
    urls,            \* unique_urls, the list handed to download_all_pdfs
    existing_files,  \* the set download_all_pdfs shares with its workers
    dl,              \* the download_pdf tasks, in the order of urls
    tasks,           \* the tasks of the running sweep: file name -> position
    permits,         \* acquired and not yet released permits of the live semaphore
    tally,           \* success / skip / fail counts printed by download_all_pdfs
    gphase,          \* admission gate alone: the phase whose fan-out is running
    gqueued,         \* admission gate alone: tasks waiting for a permit
    gheld,           \* admission gate alone: tasks inside "async with semaphore"
    gdone,           \* admission gate alone: tasks that left the block
    disc,            \* the discovery tasks of collect_pdf_urls_from_sources, in source order
    rerun,           \* which run of the program this is, and what each URL answers
    unlinks          \* the unlink calls of the deletion loop that ran last

pipeVars == <<pc, files, found, urls, existing_files, dl, tasks, permits, tally>>
gateVars == <<gphase, gqueued, gheld, gdone>>
extVars == <<disc, rerun, unlinks>>
vars == <<pc, files, found, urls, existing_files, dl, tasks, permits, tally,
          gphase, gqueued, gheld, gdone, disc, rerun, unlinks>>

----------------------------------------------------------------------------
(* Bounds of the model *)

\* files in the directory when the program starts
MaxInitFiles == 2
\* entries discovery returns
MaxFound == 1
\* tasks one fan-out of the gate-only specification queues
MaxTasks == 130
\* files in the directory of the sweep-only specification
MaxSweepFiles == 3

(* Program constants *)

\* concurrency=128, passed by main_async to every phase
Concurrency == 128
\* max_retries and retry_delay of download_pdf
max_retries == 3
retry_delay == 1
\* len(content) > 1000 of download_pdf
HeuristicLen == 1000
\* file_size < 100 of check_pdf
MinPdfSize == 100

----------------------------------------------------------------------------
(* File names: sequences of characters, so that the regular expression of  *)
(* remove_duplicate_files and the sort of remove_duplicate_content_files   *)
(* are computed on them.                                                   *)

DotPdf == <<".", "p", "d", "f">>

Digits == {"1", "2"}

\* ord(c) for the characters of the model's names
CharCode(c) ==
    CASE c = "." -> 46
      [] c = "1" -> 49
      [] c = "2" -> 50
      [] c = "_" -> 95
      [] c = "a" -> 97
      [] c = "b" -> 98
      [] c = "c" -> 99
      [] c = "d" -> 100
      [] c = "e" -> 101
      [] c = "f" -> 102
      [] c = "p" -> 112
      [] c = "s" -> 115

FileNames ==
    { <<"a">> \o DotPdf,
      <<"a", "_", "1">> \o DotPdf,
      <<"a", "_", "2">> \o DotPdf,
      <<"b">> \o DotPdf }

\* Python's str comparison: by code point, a proper prefix first
RECURSIVE StrLess(_, _)
StrLess(s, t) ==
    IF t = <<>> THEN FALSE
    ELSE IF s = <<>> THEN TRUE
    ELSE IF CharCode(Head(s)) # CharCode(Head(t))
         THEN CharCode(Head(s)) < CharCode(Head(t))
         ELSE StrLess(Tail(s), Tail(t))

EndsWithPdf(name) ==
    /\ Len(name) >= 4
    /\ SubSeq(name, Len(name) - 3, Len(name)) = DotPdf

\* the i for which name = name[1..i] "_" digits ".pdf", name[1..i] not empty
SplitPoints(name) ==
    { i \in 1..(Len(name) - 6) :
        /\ EndsWithPdf(name)
        /\ name[i + 1] = "_"
        /\ \A j \in (i + 2)..(Len(name) - 4) : name[j] \in Digits }

\* re.match(r'^(.+?)_\d+\.pdf$', name): TRUE when it matches
IsNumbered(name) == SplitPoints(name) # {}

\* base_match.group(1) + '.pdf'; the lazy group takes the shortest prefix
BaseName(name) ==
    LET i == CHOOSE k \in SplitPoints(name) :
                 \A m \in SplitPoints(name) : k <= m
    IN  SubSeq(name, 1, i) \o DotPdf

----------------------------------------------------------------------------
(* File contents.  A content is what the program can tell about a byte    *)
(* string: whether it starts with %PDF, its length, and which bytes it is *)
(* among those of the same length (tag).                                   *)

Bodies ==
    { [sig |-> TRUE,  len |-> 2000, tag |-> 0],
      [sig |-> TRUE,  len |-> 100,  tag |-> 0],
      [sig |-> TRUE,  len |-> 99,   tag |-> 0],
      [sig |-> FALSE, len |-> 1001, tag |-> 0],
      [sig |-> FALSE, len |-> 1000, tag |-> 0] }

NoBody == [sig |-> FALSE, len |-> 0, tag |-> 0]

\* hashlib.md5(content).hexdigest(): equal for equal bytes, taken to be
\* different for different bytes
Md5(content) == <<"md5", content.len, content.tag, content.sig>>

\* the "" get_file_hash returns when the file cannot be read
NoHash == <<>>

\* get_file_hash: the digest of the file, "" when it cannot be read
get_file_hash(dir, name) ==
    IF name \in DOMAIN dir THEN Md5(dir[name]) ELSE NoHash

\* DOWNLOAD_DIR.glob('*.pdf'), as a set
Glob(dir) == { n \in DOMAIN dir : EndsWithPdf(n) }

\* the directory without the files of gone
Unlink(dir, gone) == [n \in (DOMAIN dir) \ gone |-> dir[n]]

\* filepath.write_bytes(content)
WriteBytes(dir, name, content) ==
    [n \in (DOMAIN dir) \cup {name} |-> IF n = name THEN content ELSE dir[n]]

\* the orders in which a glob can enumerate the set S
Orders(S) ==
    { o \in [1..Cardinality(S) -> S] : \A x \in S : \E i \in DOMAIN o : o[i] = x }

----------------------------------------------------------------------------
(* Candidate links *)

\* a URL: which address it is, and whether the filter at the end of
\* collect_pdf_urls_from_sources lets it through (it ends in .pdf, or it
\* names github.com or raw.githubusercontent.com)
Urls ==
    { [id |-> 1, pdf |-> TRUE],
      [id |-> 2, pdf |-> TRUE],
      [id |-> 3, pdf |-> FALSE] }

Links == [url : Urls, filename : FileNames]

\* PDF_URLS, the seed list
PDF_URLS == << [url |-> [id |-> 1, pdf |-> TRUE], filename |-> <<"a">> \o DotPdf] >>

\* the lists of at most n links
LinkLists(n) == UNION { [1..k -> Links] : k \in 0..n }

\* a loop that keeps every entry
DedupeByUrlKeepAll(list, seen_urls) == list

\* the seen_urls loop: the first entry of every URL, in order
RECURSIVE DedupeByUrl(_, _)
DedupeByUrl(list, seen_urls) ==
    IF list = <<>> THEN <<>>
    ELSE IF Head(list).url \in seen_urls
         THEN DedupeByUrl(Tail(list), seen_urls)
         ELSE <<Head(list)>> \o DedupeByUrl(Tail(list), seen_urls \cup {Head(list).url})

\* a filter that loses the first entry it is given
FilterVerifiedDropFirst(list) == IF list = <<>> THEN <<>> ELSE Tail(list)

\* verified_pdf_urls: the entries whose URL passes the filter
RECURSIVE FilterVerified(_)
FilterVerified(list) ==
    IF list = <<>> THEN <<>>
    ELSE IF Head(list).url.pdf
         THEN <<Head(list)>> \o FilterVerified(Tail(list))
         ELSE FilterVerified(Tail(list))

----------------------------------------------------------------------------
(* The semaphore *)

\* a semaphore made with no permit: no task ever enters
CanAcquireNoPermit(held) == held < 0

\* a gate that lets one task too many in
CanAcquireOneMore(held) == held <= Concurrency

\* asyncio.Semaphore(concurrency): a task enters while a permit is free
CanAcquire(held) == held < Concurrency

\* entering "async with semaphore": one more permit is out
Acquire(held) == held + 1

\* an exit that keeps the permit
ReleaseLeak(held) == held

\* leaving "async with semaphore", by return or by exception: the permit is back
Release(held) == held - 1

----------------------------------------------------------------------------
(* remove_duplicate_files *)

\* the loop over files: the names appended to duplicates
RECURSIVE ScanDuplicates(_, _)
ScanDuplicates(order, base_names) ==
    IF order = <<>> THEN {}
    ELSE LET name == Head(order) IN
         IF IsNumbered(name)
         THEN IF BaseName(name) \in base_names
              THEN {name} \cup ScanDuplicates(Tail(order), base_names)
              ELSE ScanDuplicates(Tail(order), base_names \cup {BaseName(name)})
         ELSE ScanDuplicates(Tail(order), base_names \cup {name})

\* the directory after remove_duplicate_files enumerated it in this order
remove_duplicate_files(dir, order) == Unlink(dir, ScanDuplicates(order, {}))

\* main_async, first statement: the sweep before discovery
InitialNameSweep ==
    /\ pc = "start"
    /\ \E order \in Orders(Glob(files)) :
           files' = remove_duplicate_files(files, order)
    /\ pc' = "discover"
    /\ UNCHANGED <<found, urls, existing_files, dl, tasks, permits, tally>>
    /\ UNCHANGED gateVars
    /\ UNCHANGED extVars

\* main_async: the sweep after download_all_pdfs
PostNameSweep ==
    /\ pc = "sweep_name"
    /\ \E order \in Orders(Glob(files)) :
           files' = remove_duplicate_files(files, order)
    /\ pc' = "sweep_content"
    /\ UNCHANGED <<found, urls, existing_files, dl, tasks, permits, tally>>
    /\ UNCHANGED gateVars
    /\ UNCHANGED extVars

----------------------------------------------------------------------------
(* Discovery and merge *)

\* collect_pdf_urls_from_sources: what the sources yield is the network's
\* choice; the function removes repeated URLs and filters the rest
Discover ==
    /\ pc = "discover"
    /\ \E all_pdf_urls \in LinkLists(MaxFound) :
           found' = FilterVerified(DedupeByUrl(all_pdf_urls, {}))
    /\ pc' = "merge"
    /\ UNCHANGED <<files, urls, existing_files, dl, tasks, permits, tally>>
    /\ UNCHANGED gateVars
    /\ UNCHANGED extVars

\* main_async: all_urls = PDF_URLS + collected_urls, then the seen_urls loop
Merge ==
    /\ pc = "merge"
    /\ urls' = DedupeByUrl(PDF_URLS \o found, {})
    /\ pc' = "download_start"
    /\ UNCHANGED <<files, found, existing_files, dl, tasks, permits, tally>>
    /\ UNCHANGED gateVars
    /\ UNCHANGED extVars

----------------------------------------------------------------------------
(* download_all_pdfs and download_pdf *)

Outcomes == {"none", "success", "exists", "same_content", "invalid", "failed"}

\* a download_pdf task before its first step; on_disk records whether its
\* filename named a file when download_all_pdfs read the directory
NewTask(link, names) ==
    [url |-> link.url, filename |-> link.filename, pc |-> "queued",
     on_disk |-> link.filename \in names,
     attempt |-> 0, fetches |-> 0, sleeps |-> <<>>,
     body |-> NoBody, outcome |-> "none", wrote |-> FALSE, acq |-> 0, rel |-> 0]

\* download_all_pdfs up to the gather: the set of names on disk, a new
\* semaphore, one task per link
DownloadStart ==
    /\ pc = "download_start"
    /\ existing_files' = Glob(files)
    /\ permits' = 0
    /\ dl' = [i \in 1..Len(urls) |-> NewTask(urls[i], Glob(files))]
    /\ pc' = "download"
    /\ UNCHANGED <<files, found, urls, tasks, tally>>
    /\ UNCHANGED gateVars
    /\ UNCHANGED extVars

\* a worker that does not look at existing_files
AlreadyExistsNever(filename, registry) == FALSE

\* filename in existing_files
AlreadyExists(filename, registry) == filename \in registry

\* the length test with >= for >
AcceptedFrom1000(content) == content.sig \/ content.len >= HeuristicLen

\* content.startswith(b'%PDF') or len(content) > 1000
Accepted(content) == content.sig \/ content.len > HeuristicLen

\* a comparison that stops at the first file of the directory
IsDuplicateContentFirstOnly(dir, filename, content) ==
    \E existing_file \in Glob(dir) :
        /\ \A other \in Glob(dir) : other = existing_file \/ StrLess(existing_file, other)
        /\ existing_file # filename
        /\ get_file_hash(dir, existing_file) = Md5(content)

\* the loop over DOWNLOAD_DIR.glob('*.pdf') comparing get_file_hash with file_hash
IsDuplicateContent(dir, filename, content) ==
    \E existing_file \in Glob(dir) :
        /\ existing_file # filename
        /\ get_file_hash(dir, existing_file) = Md5(content)

\* a return of download_pdf: the result, and the end of "async with semaphore"
Return(t, outcome) ==
    [t EXCEPT !.pc = "done", !.outcome = outcome, !.rel = @ + 1]

\* a retry test that lets the last attempt retry too
MayRetryOneMore(attempt) == attempt < max_retries

\* attempt < max_retries - 1
MayRetry(attempt) == attempt < max_retries - 1

\* a retry loop whose delay does not grow with the attempt
RetryOrFailFlatDelay(t) ==
    IF MayRetry(t.attempt)
    THEN [t EXCEPT !.pc = "sleep", !.sleeps = Append(@, retry_delay)]
    ELSE Return(t, "failed")

\* the three failure branches: sleep and retry before the last attempt, give up on it
RetryOrFail(t) ==
    IF MayRetry(t.attempt)
    THEN [t EXCEPT !.pc = "sleep",
                   !.sleeps = Append(@, retry_delay * (t.attempt + 1))]
    ELSE Return(t, "failed")

\* the permits after a failure branch ran for the task
PermitsAfterFailure(t, held) ==
    IF MayRetry(t.attempt) THEN held ELSE Release(held)

\* The task gets its permit and runs to session.get, or returns at once
\* because the name is in existing_files.
DlEnter(i) ==
    /\ pc = "download"
    /\ dl[i].pc = "queued"
    /\ CanAcquire(permits)
    /\ IF AlreadyExists(dl[i].filename, existing_files)
       THEN /\ dl' = [dl EXCEPT ![i] = Return([@ EXCEPT !.acq = @ + 1], "exists")]
            /\ permits' = Release(Acquire(permits))
       ELSE /\ dl' = [dl EXCEPT ![i] = [@ EXCEPT !.acq = @ + 1, !.pc = "get",
                                                 !.attempt = 0, !.fetches = @ + 1]]
            /\ permits' = Acquire(permits)
    /\ UNCHANGED <<pc, files, found, urls, existing_files, tasks, tally>>
    /\ UNCHANGED gateVars
    /\ UNCHANGED extVars

\* session.get answers with a status other than 200
DlHttpError(i) ==
    /\ pc = "download"
    /\ dl[i].pc = "get"
    /\ dl' = [dl EXCEPT ![i] = RetryOrFail(@)]
    /\ permits' = PermitsAfterFailure(dl[i], permits)
    /\ UNCHANGED <<pc, files, found, urls, existing_files, tasks, tally>>
    /\ UNCHANGED gateVars
    /\ UNCHANGED extVars

\* session.get raises asyncio.TimeoutError
DlTimeout(i) ==
    /\ pc = "download"
    /\ dl[i].pc = "get"
    /\ dl' = [dl EXCEPT ![i] = RetryOrFail(@)]
    /\ permits' = PermitsAfterFailure(dl[i], permits)
    /\ UNCHANGED <<pc, files, found, urls, existing_files, tasks, tally>>
    /\ UNCHANGED gateVars
    /\ UNCHANGED extVars

\* session.get raises another exception (a transport error)
DlError(i) ==
    /\ pc = "download"
    /\ dl[i].pc = "get"
    /\ dl' = [dl EXCEPT ![i] = RetryOrFail(@)]
    /\ permits' = PermitsAfterFailure(dl[i], permits)
    /\ UNCHANGED <<pc, files, found, urls, existing_files, tasks, tally>>
    /\ UNCHANGED gateVars
    /\ UNCHANGED extVars

\* session.get answers 200: the task awaits response.read()
DlStatus200(i) ==
    /\ pc = "download"
    /\ dl[i].pc = "get"
    /\ dl' = [dl EXCEPT ![i] = [@ EXCEPT !.pc = "read"]]
    /\ UNCHANGED <<pc, files, found, urls, existing_files, tasks, permits, tally>>
    /\ UNCHANGED gateVars
    /\ UNCHANGED extVars

\* response.read() raises (time-out or transport error while the body arrives)
DlReadError(i) ==
    /\ pc = "download"
    /\ dl[i].pc = "read"
    /\ dl' = [dl EXCEPT ![i] = RetryOrFail(@)]
    /\ permits' = PermitsAfterFailure(dl[i], permits)
    /\ UNCHANGED <<pc, files, found, urls, existing_files, tasks, tally>>
    /\ UNCHANGED gateVars
    /\ UNCHANGED extVars

\* a worker that records its filename whatever becomes of the body
DlBodyRecordAlways(i, content) ==
    /\ pc = "download"
    /\ dl[i].pc = "read"
    /\ LET t == [dl[i] EXCEPT !.body = content] IN
       /\ existing_files' = existing_files \cup {t.filename}
       /\ IF Accepted(content)
          THEN IF ~IsDuplicateContent(files, t.filename, content)
               THEN /\ files' = WriteBytes(files, t.filename, content)
                    /\ dl' = [dl EXCEPT ![i] = Return([t EXCEPT !.wrote = TRUE], "success")]
               ELSE /\ dl' = [dl EXCEPT ![i] = Return(t, "same_content")]
                    /\ UNCHANGED files
          ELSE /\ dl' = [dl EXCEPT ![i] = Return(t, "invalid")]
               /\ UNCHANGED files
    /\ permits' = Release(permits)
    /\ UNCHANGED <<pc, found, urls, tasks, tally>>
    /\ UNCHANGED gateVars
    /\ UNCHANGED extVars

\* a worker that treats a rejected body like a failed request
DlBodyRetryRejected(i, content) ==
    /\ pc = "download"
    /\ dl[i].pc = "read"
    /\ LET t == [dl[i] EXCEPT !.body = content] IN
       IF Accepted(content) /\ ~IsDuplicateContent(files, t.filename, content)
       THEN /\ files' = WriteBytes(files, t.filename, content)
            /\ existing_files' = existing_files \cup {t.filename}
            /\ dl' = [dl EXCEPT ![i] = Return([t EXCEPT !.wrote = TRUE], "success")]
            /\ permits' = Release(permits)
       ELSE /\ dl' = [dl EXCEPT ![i] = RetryOrFail(t)]
            /\ permits' = PermitsAfterFailure(t, permits)
            /\ UNCHANGED <<files, existing_files>>
    /\ UNCHANGED <<pc, found, urls, tasks, tally>>
    /\ UNCHANGED gateVars
    /\ UNCHANGED extVars

\* response.read() returns the body: the check of the content, the comparison
\* with the files on disk, the write and the return run without suspension
DlBody(i, content) ==
    /\ pc = "download"
    /\ dl[i].pc = "read"
    /\ LET t == [dl[i] EXCEPT !.body = content] IN
       IF Accepted(content)
       THEN IF ~IsDuplicateContent(files, t.filename, content)
            THEN /\ files' = WriteBytes(files, t.filename, content)
                 /\ existing_files' = existing_files \cup {t.filename}
                 /\ dl' = [dl EXCEPT ![i] = Return([t EXCEPT !.wrote = TRUE], "success")]
            ELSE /\ dl' = [dl EXCEPT ![i] = Return(t, "same_content")]
                 /\ UNCHANGED <<files, existing_files>>
       ELSE /\ dl' = [dl EXCEPT ![i] = Return(t, "invalid")]
            /\ UNCHANGED <<files, existing_files>>
    /\ permits' = Release(permits)
    /\ UNCHANGED <<pc, found, urls, tasks, tally>>
    /\ UNCHANGED gateVars
    /\ UNCHANGED extVars

\* asyncio.sleep is over: the next turn of "for attempt in range(max_retries)"
\* calls session.get; after the last turn the function returns
\* "Max retries exceeded"
DlWake(i) ==
    /\ pc = "download"
    /\ dl[i].pc = "sleep"
    /\ IF dl[i].attempt + 1 < max_retries
       THEN /\ dl' = [dl EXCEPT ![i] = [@ EXCEPT !.pc = "get", !.attempt = @ + 1,
                                                 !.fetches = @ + 1]]
            /\ permits' = permits
       ELSE /\ dl' = [dl EXCEPT ![i] = Return(@, "failed")]
            /\ permits' = Release(permits)
    /\ UNCHANGED <<pc, files, found, urls, existing_files, tasks, tally>>
    /\ UNCHANGED gateVars
    /\ UNCHANGED extVars

\* the number of tasks whose result falls in the set of outcomes
CountOutcomes(results, which) ==
    Cardinality({ i \in DOMAIN results : results[i].outcome \in which })

\* a download_all_pdfs that returns when one task has returned
DownloadFinishEarly ==
    /\ pc = "download"
    /\ \E i \in DOMAIN dl : dl[i].pc = "done"
    /\ tally' = [success |-> CountOutcomes(dl, {"success"}),
                 skip    |-> CountOutcomes(dl, {"exists", "same_content"}),
                 fail    |-> CountOutcomes(dl, {"invalid", "failed"})]
    /\ dl' = <<>>
    /\ existing_files' = {}
    /\ pc' = "sweep_name"
    /\ UNCHANGED <<files, found, urls, tasks, permits>>
    /\ UNCHANGED gateVars
    /\ UNCHANGED extVars

\* asyncio.gather returned: the results are counted and printed, and
\* download_all_pdfs returns
DownloadFinish ==
    /\ pc = "download"
    /\ \A i \in DOMAIN dl : dl[i].pc = "done"
    /\ tally' = [success |-> CountOutcomes(dl, {"success"}),
                 skip    |-> CountOutcomes(dl, {"exists", "same_content"}),
                 fail    |-> CountOutcomes(dl, {"invalid", "failed"})]
    /\ dl' = <<>>
    /\ existing_files' = {}
    /\ pc' = "sweep_name"
    /\ UNCHANGED <<files, found, urls, tasks, permits>>
    /\ UNCHANGED gateVars
    /\ UNCHANGED extVars

----------------------------------------------------------------------------
(* The tasks of a sweep: calculate_file_hash_async, verify_pdf_file_async, *)
(* rename_pdf_with_title_async.  Each is queued, then inside its "async    *)
(* with semaphore" awaiting the executor, then done with its result.       *)

NoTasks == <<>>

NewSweepTasks(names, none) == [n \in names |-> [pc |-> "queued", result |-> none]]

AllDone(ts) == \A n \in DOMAIN ts : ts[n].pc = "done"

----------------------------------------------------------------------------
(* remove_duplicate_content_files *)

\* files = glob; return when there is none; else a new semaphore and one
\* calculate_file_hash_async per file
ContentSweepStart ==
    /\ pc = "sweep_content"
    /\ IF Glob(files) = {}
       THEN /\ pc' = "sweep_invalid"
            /\ UNCHANGED <<tasks, permits>>
       ELSE /\ pc' = "hashing"
            /\ tasks' = NewSweepTasks(Glob(files), NoHash)
            /\ permits' = 0
    /\ UNCHANGED <<files, found, urls, existing_files, dl, tally>>
    /\ UNCHANGED gateVars
    /\ UNCHANGED extVars

\* calculate_file_hash_async enters the semaphore and hands get_file_hash to
\* the executor
HashEnter(n) ==
    /\ pc = "hashing"
    /\ tasks[n].pc = "queued"
    /\ CanAcquire(permits)
    /\ tasks' = [tasks EXCEPT ![n].pc = "running"]
    /\ permits' = Acquire(permits)
    /\ UNCHANGED <<pc, files, found, urls, existing_files, dl, tally>>
    /\ UNCHANGED gateVars
    /\ UNCHANGED extVars

\* the executor is done: the task returns (filepath, hash_value)
HashDone(n) ==
    /\ pc = "hashing"
    /\ tasks[n].pc = "running"
    /\ tasks' = [tasks EXCEPT ![n] = [pc |-> "done", result |-> get_file_hash(files, n)]]
    /\ permits' = Release(permits)
    /\ UNCHANGED <<pc, files, found, urls, existing_files, dl, tally>>
    /\ UNCHANGED gateVars
    /\ UNCHANGED extVars

\* hash_to_files[hash_value]: the files with this digest, in the order of results
RECURSIVE FilesWithHash(_, _, _)
FilesWithHash(order, results, hash_value) ==
    IF order = <<>> THEN <<>>
    ELSE IF results[Head(order)].result = hash_value
         THEN <<Head(order)>> \o FilesWithHash(Tail(order), results, hash_value)
         ELSE FilesWithHash(Tail(order), results, hash_value)

\* a sort in descending order of name
RECURSIVE InsertByNameDescending(_, _)
InsertByNameDescending(name, sorted) ==
    IF sorted = <<>> THEN <<name>>
    ELSE IF StrLess(Head(sorted), name)
         THEN <<name>> \o sorted
         ELSE <<Head(sorted)>> \o InsertByNameDescending(name, Tail(sorted))

\* one name put at its place in a list sorted by name
RECURSIVE InsertByName(_, _)
InsertByName(name, sorted) ==
    IF sorted = <<>> THEN <<name>>
    ELSE IF StrLess(name, Head(sorted))
         THEN <<name>> \o sorted
         ELSE <<Head(sorted)>> \o InsertByName(name, Tail(sorted))

\* filepaths.sort(key=lambda p: p.name)
RECURSIVE SortByName(_)
SortByName(filepaths) ==
    IF filepaths = <<>> THEN <<>>
    ELSE InsertByName(Head(filepaths), SortByName(Tail(filepaths)))

Range(seq) == { seq[i] : i \in DOMAIN seq }

\* a sweep that leaves pairs of equal files alone
GroupDuplicatesOverTwo(filepaths) ==
    IF Len(filepaths) > 2 THEN Range(Tail(SortByName(filepaths))) ELSE {}

\* duplicates = filepaths[1:] of one sorted group of more than one file
GroupDuplicates(filepaths) ==
    IF Len(filepaths) > 1 THEN Range(Tail(SortByName(filepaths))) ELSE {}

\* every file the loop over hash_to_files unlinks; a result of "" is in no group
ContentDuplicates(order, results) ==
    UNION { GroupDuplicates(FilesWithHash(order, results, h)) :
              h \in { results[n].result : n \in DOMAIN results } \ {NoHash} }

\* gather returned: group by digest, sort each group by name, keep the first
\* file and unlink the others.  order is the order of the list the glob gave.
ContentSweepFinish ==
    /\ pc = "hashing"
    /\ AllDone(tasks)
    /\ \E order \in Orders(DOMAIN tasks) :
           files' = Unlink(files, ContentDuplicates(order, tasks))
    /\ tasks' = NoTasks
    /\ pc' = "sweep_invalid"
    /\ UNCHANGED <<found, urls, existing_files, dl, permits, tally>>
    /\ UNCHANGED gateVars
    /\ UNCHANGED extVars

----------------------------------------------------------------------------
(* remove_non_pdf_files *)

\* a size test that rejects a file of exactly 100 bytes
check_pdf_over100(dir, name) ==
    IF name \notin DOMAIN dir THEN FALSE
    ELSE IF dir[name].len <= MinPdfSize THEN FALSE
    ELSE dir[name].sig

\* check_pdf: at least 100 bytes and the header starts with %PDF; the test of
\* the version returns True on both of its branches; any exception gives False
check_pdf(dir, name) ==
    IF name \notin DOMAIN dir THEN FALSE
    ELSE IF dir[name].len < MinPdfSize THEN FALSE
    ELSE dir[name].sig

InvalidSweepStart ==
    /\ pc = "sweep_invalid"
    /\ IF Glob(files) = {}
       THEN /\ pc' = "rename"
            /\ UNCHANGED <<tasks, permits>>
       ELSE /\ pc' = "verifying"
            /\ tasks' = NewSweepTasks(Glob(files), FALSE)
            /\ permits' = 0
    /\ UNCHANGED <<files, found, urls, existing_files, dl, tally>>
    /\ UNCHANGED gateVars
    /\ UNCHANGED extVars

\* verify_pdf_file_async enters the semaphore and hands check_pdf to the executor
VerifyEnter(n) ==
    /\ pc = "verifying"
    /\ tasks[n].pc = "queued"
    /\ CanAcquire(permits)
    /\ tasks' = [tasks EXCEPT ![n].pc = "running"]
    /\ permits' = Acquire(permits)
    /\ UNCHANGED <<pc, files, found, urls, existing_files, dl, tally>>
    /\ UNCHANGED gateVars
    /\ UNCHANGED extVars

\* the executor is done: the task returns (filepath, is_pdf)
VerifyDone(n) ==
    /\ pc = "verifying"
    /\ tasks[n].pc = "running"
    /\ tasks' = [tasks EXCEPT ![n] = [pc |-> "done", result |-> check_pdf(files, n)]]
    /\ permits' = Release(permits)
    /\ UNCHANGED <<pc, files, found, urls, existing_files, dl, tally>>
    /\ UNCHANGED gateVars
    /\ UNCHANGED extVars

\* the files the loop over results unlinks
NonPdfFiles(results) == { n \in DOMAIN results : results[n].result = FALSE }

\* gather returned: every file that is not a PDF is unlinked
InvalidSweepFinish ==
    /\ pc = "verifying"
    /\ AllDone(tasks)
    /\ files' = Unlink(files, NonPdfFiles(tasks))
    /\ tasks' = NoTasks
    /\ pc' = "rename"
    /\ UNCHANGED <<found, urls, existing_files, dl, permits, tally>>
    /\ UNCHANGED gateVars
    /\ UNCHANGED extVars

----------------------------------------------------------------------------
(* rename_pdfs_with_titles *)

\* generate_better_filename returned None
NoName == <<>>

\* filepath.rename(new_filepath)
Rename(dir, old, new) ==
    [n \in ((DOMAIN dir) \ {old}) \cup {new} |-> IF n = new THEN dir[old] ELSE dir[n]]

\* Without a PDF library the pass returns at once, and so it does when the
\* directory is empty; else a new semaphore and one task per file.
RenameStart ==
    /\ pc = "rename"
    /\ \E PDF_LIBRARY_AVAILABLE \in BOOLEAN :
          IF ~PDF_LIBRARY_AVAILABLE \/ Glob(files) = {}
          THEN /\ pc' = "done"
               /\ UNCHANGED <<tasks, permits>>
          ELSE /\ pc' = "renaming"
               /\ tasks' = NewSweepTasks(Glob(files), FALSE)
               /\ permits' = 0
    /\ UNCHANGED <<files, found, urls, existing_files, dl, tally>>
    /\ UNCHANGED gateVars
    /\ UNCHANGED extVars

\* rename_pdf_with_title_async enters the semaphore and hands
\* extract_pdf_title to the executor
RenameEnter(n) ==
    /\ pc = "renaming"
    /\ tasks[n].pc = "queued"
    /\ CanAcquire(permits)
    /\ tasks' = [tasks EXCEPT ![n].pc = "running"]
    /\ permits' = Acquire(permits)
    /\ UNCHANGED <<pc, files, found, urls, existing_files, dl, tally>>
    /\ UNCHANGED gateVars
    /\ UNCHANGED extVars

\* the title is back: generate_better_filename goes to the executor
RenameTitle(n) ==
    /\ pc = "renaming"
    /\ tasks[n].pc = "running"
    /\ tasks' = [tasks EXCEPT ![n].pc = "naming"]
    /\ UNCHANGED <<pc, files, found, urls, existing_files, dl, permits, tally>>
    /\ UNCHANGED gateVars
    /\ UNCHANGED extVars

\* a task that renames without looking whether the new name is taken
RenameApplyOverwrite(n, new_filename) ==
    /\ pc = "renaming"
    /\ tasks[n].pc = "naming"
    /\ IF new_filename # NoName /\ n \in DOMAIN files
       THEN /\ files' = Rename(files, n, new_filename)
            /\ tasks' = [tasks EXCEPT ![n] = [pc |-> "done", result |-> TRUE]]
       ELSE /\ files' = files
            /\ tasks' = [tasks EXCEPT ![n] = [pc |-> "done", result |-> FALSE]]
    /\ permits' = Release(permits)
    /\ UNCHANGED <<pc, found, urls, existing_files, dl, tally>>
    /\ UNCHANGED gateVars
    /\ UNCHANGED extVars

\* the new name is back (NoName for None): the file is renamed unless there
\* is no new name or another file has it
RenameApply(n, new_filename) ==
    /\ pc = "renaming"
    /\ tasks[n].pc = "naming"
    /\ IF new_filename # NoName
          /\ ~(new_filename \in DOMAIN files /\ new_filename # n)
          /\ n \in DOMAIN files
       THEN /\ files' = Rename(files, n, new_filename)
            /\ tasks' = [tasks EXCEPT ![n] = [pc |-> "done", result |-> TRUE]]
       ELSE /\ files' = files
            /\ tasks' = [tasks EXCEPT ![n] = [pc |-> "done", result |-> FALSE]]
    /\ permits' = Release(permits)
    /\ UNCHANGED <<pc, found, urls, existing_files, dl, tally>>
    /\ UNCHANGED gateVars
    /\ UNCHANGED extVars

\* gather returned: the counts are printed and main_async ends
RenameFinish ==
    /\ pc = "renaming"
    /\ AllDone(tasks)
    /\ tasks' = NoTasks
    /\ pc' = "done"
    /\ UNCHANGED <<files, found, urls, existing_files, dl, permits, tally>>
    /\ UNCHANGED gateVars
    /\ UNCHANGED extVars

----------------------------------------------------------------------------
(* The pipeline *)

\* the directories the program can find: at most MaxInitFiles files
InitDirs ==
    UNION { [S -> Bodies] : S \in { T \in SUBSET FileNames : Cardinality(T) <= MaxInitFiles } }

NoTally == [success |-> 0, skip |-> 0, fail |-> 0]

GateIdle ==
    /\ gphase = [phase |-> "idle", live |-> FALSE]
    /\ gqueued = 0
    /\ gheld = 0
    /\ gdone = 0

\* no discovery task
NoDisc == <<>>

\* the first run of the program; no answer is fixed in advance
FirstRun == [n |-> 1, responses |-> <<>>]

\* no deletion loop has run
NoUnlinks == [sweep |-> "none", selected |-> {}, attempted |-> {}, failed |-> {}]

\* one run from a start of the program, without a record of unlink calls
PlainRun ==
    /\ disc = NoDisc
    /\ rerun = FirstRun
    /\ unlinks = NoUnlinks

Init ==
    /\ pc = "start"
    /\ files \in InitDirs
    /\ found = <<>>
    /\ urls = <<>>
    /\ existing_files = {}
    /\ dl = <<>>
    /\ tasks = NoTasks
    /\ permits = 0
    /\ tally = NoTally
    /\ GateIdle
    /\ PlainRun

Next ==
    \/ InitialNameSweep
    \/ Discover
    \/ Merge
    \/ DownloadStart
    \/ \E i \in DOMAIN dl : DlEnter(i)
    \/ \E i \in DOMAIN dl : DlHttpError(i)
    \/ \E i \in DOMAIN dl : DlTimeout(i)
    \/ \E i \in DOMAIN dl : DlError(i)
    \/ \E i \in DOMAIN dl : DlStatus200(i)
    \/ \E i \in DOMAIN dl : DlReadError(i)
    \/ \E i \in DOMAIN dl : \E content \in Bodies : DlBody(i, content)
    \/ \E i \in DOMAIN dl : DlWake(i)
    \/ DownloadFinish
    \/ PostNameSweep
    \/ ContentSweepStart
    \/ \E n \in DOMAIN tasks : HashEnter(n)
    \/ \E n \in DOMAIN tasks : HashDone(n)
    \/ ContentSweepFinish
    \/ InvalidSweepStart
    \/ \E n \in DOMAIN tasks : VerifyEnter(n)
    \/ \E n \in DOMAIN tasks : VerifyDone(n)
    \/ InvalidSweepFinish
    \/ RenameStart
    \/ \E n \in DOMAIN tasks : RenameEnter(n)
    \/ \E n \in DOMAIN tasks : RenameTitle(n)
    \/ \E n \in DOMAIN tasks : \E new_filename \in FileNames \cup {NoName} :
           RenameApply(n, new_filename)
    \/ RenameFinish

Spec == Init /\ [][Next]_vars

----------------------------------------------------------------------------
(* The admission gate alone.  Every phase of main_async makes a semaphore  *)
(* of 128 permits, queues its tasks on it and awaits them all with gather  *)
(* before the next phase starts.  Here the tasks of a phase are counted,   *)
(* not told apart, so that a phase can queue more tasks than permits.      *)

\* the fan-outs of main_async, in its order: collect_pdf_urls_from_sources,
\* download_all_pdfs, remove_duplicate_content_files, remove_non_pdf_files,
\* rename_pdfs_with_titles
GatePhases == <<"discovery", "download", "hashing", "validation", "rename">>

\* the numbers of tasks a phase may queue
TaskCounts == {0, 1, MaxTasks}

PhaseIndex(phase) == CHOOSE k \in DOMAIN GatePhases : GatePhases[k] = phase

\* the phase whose fan-out starts after this one was joined
PhaseAfter(phase) ==
    IF phase = "idle" THEN GatePhases[1] ELSE GatePhases[PhaseIndex(phase) + 1]

LastPhase == GatePhases[Len(GatePhases)]

GateInit ==
    /\ pc = "gate"
    /\ files = <<>>
    /\ found = <<>>
    /\ urls = <<>>
    /\ existing_files = {}
    /\ dl = <<>>
    /\ tasks = NoTasks
    /\ permits = 0
    /\ tally = NoTally
    /\ GateIdle
    /\ PlainRun

\* semaphore = asyncio.Semaphore(concurrency); tasks = [...]; gather starts
GateFanOut ==
    /\ ~gphase.live
    /\ gphase.phase # LastPhase
    /\ \E n \in TaskCounts :
          /\ gqueued' = n
          /\ gheld' = 0
          /\ gdone' = 0
    /\ gphase' = [phase |-> PhaseAfter(gphase.phase), live |-> TRUE]
    /\ UNCHANGED pipeVars
    /\ UNCHANGED extVars

\* a queued task enters "async with semaphore"
GateAcquire ==
    /\ gphase.live
    /\ gqueued > 0
    /\ CanAcquire(gheld)
    /\ gqueued' = gqueued - 1
    /\ gheld' = Acquire(gheld)
    /\ UNCHANGED <<gphase, gdone>>
    /\ UNCHANGED pipeVars
    /\ UNCHANGED extVars

\* a task leaves "async with semaphore"
GateRelease ==
    /\ gphase.live
    /\ gheld > 0
    /\ gheld' = Release(gheld)
    /\ gdone' = gdone + 1
    /\ UNCHANGED <<gphase, gqueued>>
    /\ UNCHANGED pipeVars
    /\ UNCHANGED extVars

\* gather returns when every task has returned
GateJoin ==
    /\ gphase.live
    /\ gqueued = 0
    /\ gheld = 0
    /\ gphase' = [gphase EXCEPT !.live = FALSE]
    /\ UNCHANGED <<gqueued, gheld, gdone>>
    /\ UNCHANGED pipeVars
    /\ UNCHANGED extVars

GateNext ==
    \/ GateFanOut
    \/ GateAcquire
    \/ GateRelease
    \/ GateJoin

SpecGate == GateInit /\ [][GateNext]_vars

----------------------------------------------------------------------------
(* The sweeps alone, on any directory of at most MaxSweepFiles files: what *)
(* main_async runs after download_all_pdfs has returned.                   *)

SweepDirs ==
    UNION { [S -> Bodies] : S \in { T \in SUBSET FileNames : Cardinality(T) <= MaxSweepFiles } }

SweepInit ==
    /\ pc = "sweep_name"
    /\ files \in SweepDirs
    /\ found = <<>>
    /\ urls = <<>>
    /\ existing_files = {}
    /\ dl = <<>>
    /\ tasks = NoTasks
    /\ permits = 0
    /\ tally = NoTally
    /\ GateIdle
    /\ PlainRun

SweepNext ==
    \/ PostNameSweep
    \/ ContentSweepStart
    \/ \E n \in DOMAIN tasks : HashEnter(n)
    \/ \E n \in DOMAIN tasks : HashDone(n)
    \/ ContentSweepFinish
    \/ InvalidSweepStart
    \/ \E n \in DOMAIN tasks : VerifyEnter(n)
    \/ \E n \in DOMAIN tasks : VerifyDone(n)
    \/ InvalidSweepFinish
    \/ RenameStart
    \/ \E n \in DOMAIN tasks : RenameEnter(n)
    \/ \E n \in DOMAIN tasks : RenameTitle(n)
    \/ \E n \in DOMAIN tasks : \E new_filename \in FileNames \cup {NoName} :
           RenameApply(n, new_filename)
    \/ RenameFinish

SpecSweep == SweepInit /\ [][SweepNext]_vars

----------------------------------------------------------------------------
(* Properties *)

\* the tasks that hold a permit
DownloadsInside == { i \in DOMAIN dl : dl[i].pc \notin {"queued", "done"} }
SweepTasksInside == { n \in DOMAIN tasks : tasks[n].pc \notin {"queued", "done"} }

\* no two files of the directory have the same digest
NoEqualDigests(dir) ==
    \A m, n \in DOMAIN dir : m # n => Md5(dir[m]) # Md5(dir[n])

(* C1: in every phase, whatever the number of queued tasks, at most 128    *)
(* tasks have acquired a permit and not yet released it.                   *)
C1_AtMost128Permits == gheld <= 128

\* C1 witness: in the last phase all 128 permits are out and tasks wait
C1_GateSaturated ==
    /\ gphase = [phase |-> "rename", live |-> TRUE]
    /\ gheld = 128
    /\ gqueued > 0

(* C2: every task that acquired a permit releases it exactly once on every *)
(* exit path; the permits out are those of the tasks inside the block, and *)
(* when all tasks of a fan-out have returned no permit is out.             *)
C2_PermitsPaired ==
    /\ \A i \in DOMAIN dl :
          /\ dl[i].pc = "queued" => dl[i].acq = 0 /\ dl[i].rel = 0
          /\ i \in DownloadsInside => dl[i].acq = 1 /\ dl[i].rel = 0
          /\ dl[i].pc = "done" => dl[i].acq = 1 /\ dl[i].rel = 1
    /\ pc = "download" => permits = Cardinality(DownloadsInside)
    /\ pc \in {"hashing", "verifying", "renaming"} =>
          permits = Cardinality(SweepTasksInside)
    /\ (pc = "download" /\ \A i \in DOMAIN dl : dl[i].pc = "done") => permits = 0
    /\ (pc \in {"hashing", "verifying", "renaming"} /\ AllDone(tasks)) => permits = 0
    /\ pc \in {"sweep_name", "sweep_content", "sweep_invalid", "rename", "done"} =>
          permits = 0

\* C2 witness: the download fan-out is complete after one task gave up on
\* its last attempt and the other had its content rejected
C2_AllReturned ==
    /\ pc = "download"
    /\ Len(dl) = 2
    /\ dl[1].outcome = "failed"
    /\ dl[2].outcome = "invalid"
    /\ permits = 0

----------------------------------------------------------------------------
\* the step in which download task i gets the body of a 200 response
BodyStep(i) ==
    /\ i \in DOMAIN dl
    /\ i \in DOMAIN dl'
    /\ dl[i].pc = "read"
    /\ dl'[i].pc = "done"
    /\ dl'[i].body # NoBody

\* the step in which a failure branch of download task i runs
FailureStep(i) ==
    /\ i \in DOMAIN dl
    /\ i \in DOMAIN dl'
    /\ dl[i].pc \in {"get", "read"}
    /\ dl'[i].pc \in {"sleep", "done"}
    /\ dl'[i].body = NoBody

C4_ThreeFailures ==
    /\ [](\A i \in DOMAIN dl :
            /\ dl[i].fetches <= 3
            /\ dl[i].outcome = "failed" =>
                  /\ dl[i].fetches = 3
                  /\ dl[i].sleeps = <<1, 2>>
                  /\ ~dl[i].wrote
                  /\ dl[i].body = NoBody)
    /\ [][\A i \in DOMAIN dl :
            FailureStep(i) =>
               /\ files' = files
               /\ existing_files' = existing_files
               /\ dl[i].attempt < 2 => dl'[i].pc = "sleep"
               /\ dl[i].attempt = 2 =>
                     /\ dl'[i].pc = "done"
                     /\ dl'[i].outcome = "failed"
                     /\ dl'[i].fetches = 3]_vars

\* C4 witness: a worker has returned Failed after three failed attempts
C4_GaveUp ==
    \E i \in DOMAIN dl :
        /\ dl[i].outcome = "failed"
        /\ dl[i].fetches = 3
        /\ dl[i].filename \notin DOMAIN files

(* C5: a 200 body is accepted if and only if it starts with %PDF or is     *)
(* longer than 1000 bytes; a worker that gets another body returns a       *)
(* Failed outcome, and its step leaves the directory and the registry as   *)
(* they were.                                                              *)
C5_ContentCheck ==
    /\ [](\A i \in DOMAIN dl :
            /\ dl[i].outcome \in {"success", "same_content"} =>
                  (dl[i].body # NoBody /\ (dl[i].body.sig \/ dl[i].body.len > 1000))
            /\ dl[i].outcome = "invalid" =>
                  (dl[i].body # NoBody /\ ~dl[i].body.sig /\ dl[i].body.len <= 1000
                   /\ ~dl[i].wrote))
    /\ [][\A i \in DOMAIN dl :
            BodyStep(i) =>
               IF dl'[i].body.sig \/ dl'[i].body.len > 1000
               THEN dl'[i].outcome \in {"success", "same_content"}
               ELSE /\ dl'[i].outcome = "invalid"
                    /\ CountOutcomes(dl', {"invalid", "failed"})
                         = CountOutcomes(dl, {"invalid", "failed"}) + 1
                    /\ files' = files
                    /\ existing_files' = existing_files]_vars

\* C5 witness: a worker was handed 1000 bytes without the signature and
\* returned the invalid-content failure
C5_Rejected1000 ==
    \E i \in DOMAIN dl :
        /\ dl[i].outcome = "invalid"
        /\ dl[i].body = [sig |-> FALSE, len |-> 1000, tag |-> 0]

(* C6: a worker whose filename is in the registry when it starts returns   *)
(* "already exists" with no request and no write; a link whose filename    *)
(* named a file on disk when the download phase started is never fetched.  *)
C6_SkipExisting ==
    /\ [](\A i \in DOMAIN dl :
            /\ dl[i].on_disk =>
                  /\ dl[i].fetches = 0
                  /\ ~dl[i].wrote
                  /\ dl[i].pc \in {"queued", "done"}
                  /\ dl[i].pc = "done" => dl[i].outcome = "exists"
            /\ dl[i].outcome = "exists" => dl[i].fetches = 0 /\ ~dl[i].wrote)
    /\ [][\A i \in DOMAIN dl :
            (i \in DOMAIN dl' /\ dl[i].pc = "queued" /\ dl'[i].pc # "queued"
             /\ dl[i].filename \in existing_files) =>
                /\ dl'[i].pc = "done"
                /\ dl'[i].outcome = "exists"
                /\ dl'[i].fetches = 0
                /\ files' = files
                /\ existing_files' = existing_files]_vars

\* C6 witness: a link whose file was on disk at the start was skipped, and
\* the other link of the run was downloaded
C6_Skipped ==
    /\ Len(dl) = 2
    /\ dl[1].on_disk
    /\ dl[1].outcome = "exists"
    /\ ~dl[2].on_disk
    /\ dl[2].outcome = "success"

----------------------------------------------------------------------------
(* The program run twice on one directory.  In both runs discovery returns *)
(* the same links and every URL answers the same way: it fails on every    *)
(* attempt, or it returns status 200 and the same body on every attempt.   *)

\* what a URL answers
Answers ==
    { [ok |-> FALSE, body |-> NoBody] } \cup { [ok |-> TRUE, body |-> b] : b \in Bodies }

\* the URLs that can reach download_all_pdfs: the seeds and what passes the filter
DownloadableUrls == { u \in Urls : u.pdf }

\* the answer of the URL of download task i
Answer(i) == rerun.responses[dl[i].url]

\* main() is called again: a new process on the directory the first run left
RunAgain ==
    /\ pc = "done"
    /\ rerun.n = 1
    /\ rerun' = [rerun EXCEPT !.n = 2]
    /\ pc' = "start"
    /\ urls' = <<>>
    /\ tally' = NoTally
    /\ UNCHANGED <<files, found, existing_files, dl, tasks, permits, disc, unlinks>>
    /\ UNCHANGED gateVars

RerunInit ==
    /\ pc = "start"
    /\ files = <<>>
    /\ found = <<>>
    /\ urls = <<>>
    /\ existing_files = {}
    /\ dl = <<>>
    /\ tasks = NoTasks
    /\ permits = 0
    /\ tally = NoTally
    /\ GateIdle
    /\ disc = NoDisc
    /\ rerun \in [n : {1}, responses : [DownloadableUrls -> Answers]]
    /\ unlinks = NoUnlinks

RerunNext ==
    \/ InitialNameSweep
    \/ Discover /\ (rerun.n = 2 => found' = found)
    \/ Merge
    \/ DownloadStart
    \/ \E i \in DOMAIN dl : DlEnter(i)
    \/ \E i \in DOMAIN dl : DlHttpError(i) /\ ~Answer(i).ok
    \/ \E i \in DOMAIN dl : DlTimeout(i) /\ ~Answer(i).ok
    \/ \E i \in DOMAIN dl : DlError(i) /\ ~Answer(i).ok
    \/ \E i \in DOMAIN dl : DlStatus200(i)
    \/ \E i \in DOMAIN dl : DlReadError(i) /\ ~Answer(i).ok
    \/ \E i \in DOMAIN dl : \E content \in Bodies :
           DlBody(i, content) /\ Answer(i).ok /\ content = Answer(i).body
    \/ \E i \in DOMAIN dl : DlWake(i)
    \/ DownloadFinish
    \/ PostNameSweep
    \/ ContentSweepStart
    \/ \E n \in DOMAIN tasks : HashEnter(n)
    \/ \E n \in DOMAIN tasks : HashDone(n)
    \/ ContentSweepFinish
    \/ InvalidSweepStart
    \/ \E n \in DOMAIN tasks : VerifyEnter(n)
    \/ \E n \in DOMAIN tasks : VerifyDone(n)
    \/ InvalidSweepFinish
    \/ RenameStart
    \/ \E n \in DOMAIN tasks : RenameEnter(n)
    \/ \E n \in DOMAIN tasks : RenameTitle(n)
    \/ \E n \in DOMAIN tasks : \E new_filename \in FileNames \cup {NoName} :
           RenameApply(n, new_filename)
    \/ RenameFinish
    \/ RunAgain

SpecRerun == RerunInit /\ [][RerunNext]_vars

\* a download task writes its file in this step
WriteStep == \E i \in DOMAIN dl : i \in DOMAIN dl' /\ ~dl[i].wrote /\ dl'[i].wrote

\* a file is unlinked in this step (a rename is not a deletion)
DeleteStep == pc # "renaming" /\ \E n \in DOMAIN files : n \notin DOMAIN files'

(* C11 as stated: the second run of the whole pipeline, with the same      *)
(* candidate links and the same responses, on the directory the first      *)
(* complete run left, writes no file and deletes no file.                  *)
C11_Original == [][rerun.n = 2 => ~WriteStep /\ ~DeleteStep]_vars

----------------------------------------------------------------------------
\* the step in which remove_duplicate_files runs after the downloads
NameSweepStep == pc = "sweep_name" /\ pc' = "sweep_content"

\* the step in which remove_duplicate_content_files deletes
ContentSweepStep == pc = "hashing" /\ pc' = "sweep_invalid"

\* the step in which remove_non_pdf_files deletes
InvalidSweepStep == pc = "verifying" /\ pc' = "rename"

\* the results of the hashing tasks on a directory nothing else touches
HashResults(dir) ==
    [n \in Glob(dir) |-> [pc |-> "done", result |-> get_file_hash(dir, n)]]

\* the results of the verifying tasks on a directory nothing else touches
VerifyResults(dir) ==
    [n \in Glob(dir) |-> [pc |-> "done", result |-> check_pdf(dir, n)]]

(* C12 as stated: each of the three sweeps leaves the same set of files    *)
(* whatever the order in which the directory is enumerated, and a second   *)
(* pass over its own output deletes nothing.                               *)
C12_Original ==
    /\ [][NameSweepStep =>
            /\ \A order \in Orders(Glob(files)) :
                   files' = remove_duplicate_files(files, order)
            /\ \A again \in Orders(Glob(files')) :
                   remove_duplicate_files(files', again) = files']_vars
    /\ [][ContentSweepStep =>
            /\ \A order \in Orders(DOMAIN tasks) :
                   files' = Unlink(files, ContentDuplicates(order, tasks))
            /\ \A again \in Orders(Glob(files')) :
                   ContentDuplicates(again, HashResults(files')) = {}]_vars
    /\ [][InvalidSweepStep =>
            /\ files' = Unlink(files, NonPdfFiles(tasks))
            /\ NonPdfFiles(VerifyResults(files')) = {}]_vars

\* the base name a file counts under: B.pdf for B.pdf and for B_<number>.pdf
NameGroup(name) == IF IsNumbered(name) THEN BaseName(name) ELSE name

\* the first file of every base name in an enumeration
FirstOfEachBase(order) ==
    { order[i] : i \in { k \in DOMAIN order :
                           \A j \in 1..(k - 1) : NameGroup(order[j]) # NameGroup(order[k]) } }

(* C13 as stated: after the duplicate-name sweep exactly one file remains  *)
(* of every base name B, among B.pdf and its numbered variants that were   *)
(* there when the sweep started: the first one of the enumeration.         *)
C13_Original ==
    [][NameSweepStep =>
          \E order \in Orders(Glob(files)) :
              DOMAIN files' = FirstOfEachBase(order)]_vars

----------------------------------------------------------------------------
(* Filesystem failures.  An unlink, a read, a write or a rename can raise  *)
(* (permission denied, file gone).  The actions below are the deletion     *)
(* loops and the file operations of the tasks with that outcome added;     *)
(* unlinks records, for the deletion loop that ran last, the files it      *)
(* selected, those on which unlink was called, and those where it raised.  *)

\* duplicates of remove_duplicate_files, in the order they were appended
DuplicatesInOrder(order) ==
    SelectSeq(order, LAMBDA name : name \in ScanDuplicates(order, {}))

\* the first k elements of a list, as a set
FirstOf(list, k) == { list[j] : j \in 1..k }

\* remove_duplicate_files: "for dup in duplicates: dup.unlink()" has no
\* try, so the first unlink that raises ends the loop and the exception
\* leaves the function and main_async.  k unlinks succeed before that.
NameSweepUnlinks(after) ==
    \E order \in Orders(Glob(files)) :
        LET duplicates == DuplicatesInOrder(order) IN
        \E k \in 0..Len(duplicates) :
            /\ files' = Unlink(files, FirstOf(duplicates, k))
            /\ IF k = Len(duplicates)
               THEN /\ pc' = after
                    /\ unlinks' = [sweep |-> "name", selected |-> Range(duplicates),
                                   attempted |-> Range(duplicates), failed |-> {}]
               ELSE /\ pc' = "crashed"
                    /\ unlinks' = [sweep |-> "name", selected |-> Range(duplicates),
                                   attempted |-> FirstOf(duplicates, k + 1),
                                   failed |-> {duplicates[k + 1]}]

\* main_async, first statement
InitialNameSweepUnlinks ==
    /\ pc = "start"
    /\ NameSweepUnlinks("discover")
    /\ UNCHANGED <<found, urls, existing_files, dl, tasks, permits, tally>>
    /\ UNCHANGED <<disc, rerun>>
    /\ UNCHANGED gateVars

\* main_async, after download_all_pdfs
PostNameSweepUnlinks ==
    /\ pc = "sweep_name"
    /\ NameSweepUnlinks("sweep_content")
    /\ UNCHANGED <<found, urls, existing_files, dl, tasks, permits, tally>>
    /\ UNCHANGED <<disc, rerun>>
    /\ UNCHANGED gateVars

\* remove_duplicate_content_files after the gather: every unlink is in a
\* try of its own, so each selected file is tried and the loop goes on
ContentSweepFinishUnlinks ==
    /\ pc = "hashing"
    /\ AllDone(tasks)
    /\ \E order \in Orders(DOMAIN tasks) :
         LET selected == ContentDuplicates(order, tasks) IN
         \E failed \in SUBSET selected :
            /\ files' = Unlink(files, selected \ failed)
            /\ unlinks' = [sweep |-> "content", selected |-> selected,
                           attempted |-> selected, failed |-> failed]
    /\ tasks' = NoTasks
    /\ pc' = "sweep_invalid"
    /\ UNCHANGED <<found, urls, existing_files, dl, permits, tally>>
    /\ UNCHANGED <<disc, rerun>>
    /\ UNCHANGED gateVars

\* remove_non_pdf_files after the gather: every unlink is in a try of its own
InvalidSweepFinishUnlinks ==
    /\ pc = "verifying"
    /\ AllDone(tasks)
    /\ LET selected == NonPdfFiles(tasks) IN
       \E failed \in SUBSET selected :
          /\ files' = Unlink(files, selected \ failed)
          /\ unlinks' = [sweep |-> "invalid", selected |-> selected,
                         attempted |-> selected, failed |-> failed]
    /\ tasks' = NoTasks
    /\ pc' = "rename"
    /\ UNCHANGED <<found, urls, existing_files, dl, permits, tally>>
    /\ UNCHANGED <<disc, rerun>>
    /\ UNCHANGED gateVars

\* get_file_hash cannot read the file: it returns "" and the task returns
\* (filepath, "")
HashFail(n) ==
    /\ pc = "hashing"
    /\ tasks[n].pc = "running"
    /\ tasks' = [tasks EXCEPT ![n] = [pc |-> "done", result |-> NoHash]]
    /\ permits' = Release(permits)
    /\ UNCHANGED <<pc, files, found, urls, existing_files, dl, tally>>
    /\ UNCHANGED gateVars
    /\ UNCHANGED extVars

\* check_pdf cannot stat or open the file: its except branch returns False
VerifyFail(n) ==
    /\ pc = "verifying"
    /\ tasks[n].pc = "running"
    /\ tasks' = [tasks EXCEPT ![n] = [pc |-> "done", result |-> FALSE]]
    /\ permits' = Release(permits)
    /\ UNCHANGED <<pc, files, found, urls, existing_files, dl, tally>>
    /\ UNCHANGED gateVars
    /\ UNCHANGED extVars

\* filepath.write_bytes raises for an accepted body that no other file has:
\* "except Exception" of download_pdf takes it as a failed attempt
DlWriteError(i, content) ==
    /\ pc = "download"
    /\ dl[i].pc = "read"
    /\ Accepted(content)
    /\ ~IsDuplicateContent(files, dl[i].filename, content)
    /\ dl' = [dl EXCEPT ![i] = RetryOrFail(@)]
    /\ permits' = PermitsAfterFailure(dl[i], permits)
    /\ UNCHANGED <<pc, files, found, urls, existing_files, tasks, tally>>
    /\ UNCHANGED gateVars
    /\ UNCHANGED extVars

\* filepath.rename raises: the inner except returns (old, new, False)
RenameError(n, new_filename) ==
    /\ pc = "renaming"
    /\ tasks[n].pc = "naming"
    /\ ~(new_filename \in DOMAIN files /\ new_filename # n)
    /\ tasks' = [tasks EXCEPT ![n] = [pc |-> "done", result |-> FALSE]]
    /\ permits' = Release(permits)
    /\ UNCHANGED <<pc, files, found, urls, existing_files, dl, tally>>
    /\ UNCHANGED gateVars
    /\ UNCHANGED extVars

FaultsNext ==
    \/ InitialNameSweepUnlinks
    \/ Discover
    \/ Merge
    \/ DownloadStart
    \/ \E i \in DOMAIN dl : DlEnter(i)
    \/ \E i \in DOMAIN dl : DlHttpError(i)
    \/ \E i \in DOMAIN dl : DlTimeout(i)
    \/ \E i \in DOMAIN dl : DlError(i)
    \/ \E i \in DOMAIN dl : DlStatus200(i)
    \/ \E i \in DOMAIN dl : DlReadError(i)
    \/ \E i \in DOMAIN dl : \E content \in Bodies : DlBody(i, content)
    \/ \E i \in DOMAIN dl : \E content \in Bodies : DlWriteError(i, content)
    \/ \E i \in DOMAIN dl : DlWake(i)
    \/ DownloadFinish
    \/ PostNameSweepUnlinks
    \/ ContentSweepStart
    \/ \E n \in DOMAIN tasks : HashEnter(n)
    \/ \E n \in DOMAIN tasks : HashDone(n)
    \/ \E n \in DOMAIN tasks : HashFail(n)
    \/ ContentSweepFinishUnlinks
    \/ InvalidSweepStart
    \/ \E n \in DOMAIN tasks : VerifyEnter(n)
    \/ \E n \in DOMAIN tasks : VerifyDone(n)
    \/ \E n \in DOMAIN tasks : VerifyFail(n)
    \/ InvalidSweepFinishUnlinks
    \/ RenameStart
    \/ \E n \in DOMAIN tasks : RenameEnter(n)
    \/ \E n \in DOMAIN tasks : RenameTitle(n)
    \/ \E n \in DOMAIN tasks : \E new_filename \in FileNames \cup {NoName} :
           RenameApply(n, new_filename)
    \/ \E n \in DOMAIN tasks : \E new_filename \in FileNames :
           RenameError(n, new_filename)
    \/ RenameFinish

SpecFaults == Init /\ [][FaultsNext]_vars

(* C14 as stated: in each of the three sweeps a failed unlink is caught,   *)
(* and the sweep still calls unlink on every other file it selected.       *)
C14_Original ==
    /\ unlinks.attempted = unlinks.selected
    /\ unlinks.failed # {} => pc # "crashed"

(* C15 as stated: no error of a task leaves its phase; in every run        *)
(* main_async goes through every phase and is never ended by an exception. *)
C15_Original == pc # "crashed"

----------------------------------------------------------------------------
(* collect_pdf_urls_from_sources in detail: one task per source, each      *)
(* inside "async with semaphore", then the gather, the removal of repeated *)
(* URLs and the filter.                                                    *)

\* links one HTML or Markdown page yields
MaxPage == 1

\* PDF_SOURCE_URLS: one source of each shape the dispatch tells apart.
\* github: 'github.com' in the URL; raw_or_blob: '/raw/' or '/blob/' in it;
\* md: it ends with '.md'; rawhost: 'raw.githubusercontent.com' in it;
\* repo: the URL has an owner and a repository part
PDF_SOURCE_URLS ==
    << [id |-> 1, github |-> TRUE,  raw_or_blob |-> FALSE, md |-> FALSE,
        rawhost |-> FALSE, repo |-> TRUE],
       [id |-> 2, github |-> FALSE, raw_or_blob |-> FALSE, md |-> TRUE,
        rawhost |-> TRUE,  repo |-> FALSE],
       [id |-> 3, github |-> FALSE, raw_or_blob |-> FALSE, md |-> FALSE,
        rawhost |-> FALSE, repo |-> FALSE] >>

\* a dispatch that sends only the URLs ending in .md to the markdown function
StrategyMdOnly(source_url) ==
    IF source_url.md THEN "markdown"
    ELSE IF source_url.github /\ ~source_url.raw_or_blob THEN "api" ELSE "html"

\* the if / elif / else that picks the extract function of a source
Strategy(source_url) ==
    IF source_url.github /\ ~source_url.raw_or_blob /\ ~source_url.md
    THEN "api"
    ELSE IF source_url.md \/ source_url.rawhost THEN "markdown" ELSE "html"

\* branches = ['main', 'master', 'gh-pages', 'docs', 'book']
branches == <<"main", "master", "gh-pages", "docs", "book">>

\* paths of a tree listing: docs/spec.pdf and README
SpecPdfPath == <<"d", "o", "c", "s", "/", "s", "p", "e", "c">> \o DotPdf
ReadmePath == <<"R", "E", "A", "D", "M", "E">>

\* an item of data['tree']: its path, or an item whose path is not a string
\* (JSON null), on which path.endswith raises
SpecPdfItem == [path |-> SpecPdfPath, str |-> TRUE]
ReadmeItem == [path |-> ReadmePath, str |-> TRUE]
NullPathItem == [path |-> <<>>, str |-> FALSE]

\* the values of data['tree'] the tree endpoint answers with: no item, no
\* PDF, a PDF alone or after another file, and an item that raises after or
\* before the PDF
Trees ==
    { <<>>, <<ReadmeItem>>, <<SpecPdfItem>>, <<ReadmeItem, SpecPdfItem>>,
      <<SpecPdfItem, NullPathItem>>, <<NullPathItem, SpecPdfItem>> }

\* no response body at hand
NoData == [kind |-> "none", tree |-> <<>>]

\* what response.json() makes of a 200 answer of the tree endpoint: it
\* raises (the body is not JSON, or does not arrive), or it is JSON without
\* a 'tree' key, or JSON with a tree
ApiData ==
    { [kind |-> "invalid", tree |-> <<>>], [kind |-> "no_tree", tree |-> <<>>] }
        \cup { [kind |-> "tree", tree |-> t] : t \in Trees }

\* os.path.basename(path): what follows the last "/"
RECURSIVE Basename(_)
Basename(path) ==
    IF \E j \in DOMAIN path : path[j] = "/"
    THEN Basename(Tail(path))
    ELSE path

\* f"https://raw.githubusercontent.com/{owner}/{repo}/{branch}/{path}"; the
\* filter of collect_pdf_urls_from_sources lets every such URL through
RawUrl(source_url, branch, path) ==
    [host |-> "raw.githubusercontent.com", repo |-> source_url.id,
     branch |-> branch, path |-> path, pdf |-> TRUE]

\* the loop over data['tree'] on one branch: the links appended, and whether
\* an item raised (which ends the loop)
RECURSIVE WalkTree(_, _, _)
WalkTree(tree, source_url, branch) ==
    IF tree = <<>> THEN [links |-> <<>>, raised |-> FALSE]
    ELSE LET item == Head(tree) IN
         IF ~item.str THEN [links |-> <<>>, raised |-> TRUE]
         ELSE LET rest == WalkTree(Tail(tree), source_url, branch) IN
              IF EndsWithPdf(item.path)
              THEN [links |-> << [url |-> RawUrl(source_url, branch, item.path),
                                  filename |-> Basename(item.path)] >> \o rest.links,
                    raised |-> rest.raised]
              ELSE rest

\* the links a page can yield: one whose URL passes the filter, one whose
\* URL does not
PageLinks ==
    { [url |-> [id |-> 2, pdf |-> TRUE],  filename |-> <<"b">> \o DotPdf],
      [url |-> [id |-> 3, pdf |-> FALSE], filename |-> <<"a", "_", "1">> \o DotPdf] }

Pages == UNION { [1..k -> PageLinks] : k \in 0..MaxPage }

\* a discovery task before its first step.  branch: the index of the branch
\* being probed; data: the body of the 200 answer being read; before: how
\* the request before the current one ended; final: how the last request of
\* the task ended
NewDiscTask(source_url) ==
    [source |-> source_url, strategy |-> Strategy(source_url), pc |-> "queued",
     branch |-> 0, pdf_urls |-> <<>>, data |-> NoData,
     before |-> "none", final |-> "none"]

\* collect_pdf_urls_from_sources up to the gather
DiscoverStart ==
    /\ pc = "discover"
    /\ disc' = [i \in DOMAIN PDF_SOURCE_URLS |-> NewDiscTask(PDF_SOURCE_URLS[i])]
    /\ permits' = 0
    /\ pc' = "discovering"
    /\ UNCHANGED <<files, found, urls, existing_files, dl, tasks, tally>>
    /\ UNCHANGED <<rerun, unlinks>>
    /\ UNCHANGED gateVars

\* the task enters "async with semaphore" and runs to its first session.get;
\* an api task whose URL has no owner/repo pair returns at once
DiscEnter(i) ==
    /\ pc = "discovering"
    /\ disc[i].pc = "queued"
    /\ CanAcquire(permits)
    /\ IF disc[i].strategy = "api" /\ ~disc[i].source.repo
       THEN /\ disc' = [disc EXCEPT ![i].pc = "done"]
            /\ permits' = Release(Acquire(permits))
       ELSE /\ disc' = [disc EXCEPT ![i].pc = "get",
                                    ![i].branch = IF disc[i].strategy = "api" THEN 1 ELSE 0]
            /\ permits' = Acquire(permits)
    /\ UNCHANGED <<pc, files, found, urls, existing_files, dl, tasks, tally>>
    /\ UNCHANGED <<rerun, unlinks>>
    /\ UNCHANGED gateVars

\* a loop that goes on to the next branch after a listing was walked
AfterProbeNoBreak(t, answer, links, stop) ==
    IF t.branch = Len(branches)
    THEN [t EXCEPT !.pc = "done", !.pdf_urls = @ \o links, !.data = NoData,
                   !.final = answer]
    ELSE [t EXCEPT !.pc = "get", !.branch = @ + 1, !.pdf_urls = @ \o links,
                   !.data = NoData, !.before = answer]

\* the end of one turn of "for branch in branches": break after a listing
\* that was walked to its end, else the next branch, and the return after
\* the last one
AfterProbe(t, answer, links, stop) ==
    IF stop \/ t.branch = Len(branches)
    THEN [t EXCEPT !.pc = "done", !.pdf_urls = @ \o links, !.data = NoData,
                   !.final = answer]
    ELSE [t EXCEPT !.pc = "get", !.branch = @ + 1, !.pdf_urls = @ \o links,
                   !.data = NoData, !.before = answer]

\* the permits after a turn of the loop: the task leaves the block when it returns
PermitsAfterProbe(t, held) == IF t.pc = "done" THEN Release(held) ELSE held

\* one turn of the branch loop that ends with this answer and these links
ApiTurn(i, from, answer, links, stop) ==
    /\ pc = "discovering"
    /\ disc[i].strategy = "api"
    /\ disc[i].pc = from
    /\ disc' = [disc EXCEPT ![i] = AfterProbe(@, answer, links, stop)]
    /\ permits' = PermitsAfterProbe(disc'[i], permits)
    /\ UNCHANGED <<pc, files, found, urls, existing_files, dl, tasks, tally>>
    /\ UNCHANGED <<rerun, unlinks>>
    /\ UNCHANGED gateVars

\* the tree request answers with a status other than 200 (404 for a branch
\* that does not exist): nothing is appended, the loop goes on
ApiNon200(i) == ApiTurn(i, "get", "non200", <<>>, FALSE)

\* session.get raises (time-out, transport error): "except Exception: continue"
ApiGetError(i) == ApiTurn(i, "get", "error", <<>>, FALSE)

\* status 200 with this body: the task awaits response.json()
ApiStatus200(i, data) ==
    /\ pc = "discovering"
    /\ disc[i].strategy = "api"
    /\ disc[i].pc = "get"
    /\ disc' = [disc EXCEPT ![i].pc = "json", ![i].data = data]
    /\ UNCHANGED <<pc, files, found, urls, existing_files, dl, tasks, permits, tally>>
    /\ UNCHANGED <<rerun, unlinks>>
    /\ UNCHANGED gateVars

\* response.json() raises (the body is not JSON, or reading it fails):
\* "except Exception: continue"
ApiJsonError(i) ==
    /\ disc[i].data.kind = "invalid"
    /\ ApiTurn(i, "json", "json_error", <<>>, FALSE)

\* the JSON has no 'tree' key: no break, the loop goes on
ApiNoTree(i) ==
    /\ disc[i].data.kind = "no_tree"
    /\ ApiTurn(i, "json", "no_tree", <<>>, FALSE)

\* the JSON has a tree: its items are walked; break when the walk reaches the
\* end, "except Exception: continue" when an item raises, with what was
\* appended before it left in pdf_urls
ApiTree(i) ==
    /\ disc[i].data.kind = "tree"
    /\ LET walk == WalkTree(disc[i].data.tree, disc[i].source, branches[disc[i].branch]) IN
       ApiTurn(i, "json", IF walk.raised THEN "raised" ELSE "tree", walk.links,
               ~walk.raised)

\* a page task whose failed fetch is not caught and ends the gather
PageReturnUncaught(i, from, answer, links) ==
    /\ pc = "discovering"
    /\ disc[i].strategy \in {"markdown", "html"}
    /\ disc[i].pc = from
    /\ disc' = [disc EXCEPT ![i] = [@ EXCEPT !.pc = "done", !.pdf_urls = links,
                                              !.final = answer]]
    /\ permits' = Release(permits)
    /\ pc' = IF answer = "page" THEN pc ELSE "crashed"
    /\ UNCHANGED <<files, found, urls, existing_files, dl, tasks, tally>>
    /\ UNCHANGED <<rerun, unlinks>>
    /\ UNCHANGED gateVars

\* an HTML or Markdown task returns: with the links of the page, or, the
\* failure caught and printed, with the empty pdf_urls
PageReturn(i, from, answer, links) ==
    /\ pc = "discovering"
    /\ disc[i].strategy \in {"markdown", "html"}
    /\ disc[i].pc = from
    /\ disc' = [disc EXCEPT ![i] = [@ EXCEPT !.pc = "done", !.pdf_urls = links,
                                              !.final = answer]]
    /\ permits' = Release(permits)
    /\ UNCHANGED <<pc, files, found, urls, existing_files, dl, tasks, tally>>
    /\ UNCHANGED <<rerun, unlinks>>
    /\ UNCHANGED gateVars

\* the page answers with a status other than 200: pdf_urls stays empty
PageNon200(i) == PageReturn(i, "get", "non200", <<>>)

\* session.get raises asyncio.TimeoutError
PageTimeout(i) == PageReturn(i, "get", "timeout", <<>>)

\* session.get raises a transport error
PageGetError(i) == PageReturn(i, "get", "error", <<>>)

\* status 200: the task awaits response.text()
PageStatus200(i) ==
    /\ pc = "discovering"
    /\ disc[i].strategy \in {"markdown", "html"}
    /\ disc[i].pc = "get"
    /\ disc' = [disc EXCEPT ![i].pc = "read"]
    /\ UNCHANGED <<pc, files, found, urls, existing_files, dl, tasks, permits, tally>>
    /\ UNCHANGED <<rerun, unlinks>>
    /\ UNCHANGED gateVars

\* response.text() raises
PageReadError(i) == PageReturn(i, "read", "read_error", <<>>)

\* the text is back: the links found in it are returned
PageText(i, page) == PageReturn(i, "read", "page", page)

\* all_pdf_urls: the results of the tasks, in the order of the sources
RECURSIVE AllPdfUrls(_)
AllPdfUrls(results) ==
    IF results = <<>> THEN <<>>
    ELSE Head(results).pdf_urls \o AllPdfUrls(Tail(results))

\* a gather that returns as soon as one task has returned
DiscoverFinishEarly ==
    /\ pc = "discovering"
    /\ \E i \in DOMAIN disc : disc[i].pc = "done"
    /\ found' = FilterVerified(DedupeByUrl(AllPdfUrls(disc), {}))
    /\ disc' = NoDisc
    /\ pc' = "merge"
    /\ UNCHANGED <<files, urls, existing_files, dl, tasks, permits, tally>>
    /\ UNCHANGED <<rerun, unlinks>>
    /\ UNCHANGED gateVars

\* gather returned: the lists are joined, repeated URLs removed, the filter
\* applied, and collect_pdf_urls_from_sources returns
DiscoverFinish ==
    /\ pc = "discovering"
    /\ \A i \in DOMAIN disc : disc[i].pc = "done"
    /\ found' = FilterVerified(DedupeByUrl(AllPdfUrls(disc), {}))
    /\ disc' = NoDisc
    /\ pc' = "merge"
    /\ UNCHANGED <<files, urls, existing_files, dl, tasks, permits, tally>>
    /\ UNCHANGED <<rerun, unlinks>>
    /\ UNCHANGED gateVars

DiscoveryInit ==
    /\ pc = "discover"
    /\ files = <<>>
    /\ found = <<>>
    /\ urls = <<>>
    /\ existing_files = {}
    /\ dl = <<>>
    /\ tasks = NoTasks
    /\ permits = 0
    /\ tally = NoTally
    /\ GateIdle
    /\ PlainRun

DiscoveryNext ==
    \/ DiscoverStart
    \/ \E i \in DOMAIN disc : DiscEnter(i)
    \/ \E i \in DOMAIN disc : ApiNon200(i)
    \/ \E i \in DOMAIN disc : ApiGetError(i)
    \/ \E i \in DOMAIN disc : \E data \in ApiData :
           ApiStatus200(i, data)
    \/ \E i \in DOMAIN disc : ApiJsonError(i)
    \/ \E i \in DOMAIN disc : ApiNoTree(i)
    \/ \E i \in DOMAIN disc : ApiTree(i)
    \/ \E i \in DOMAIN disc : PageNon200(i)
    \/ \E i \in DOMAIN disc : PageTimeout(i)
    \/ \E i \in DOMAIN disc : PageGetError(i)
    \/ \E i \in DOMAIN disc : PageStatus200(i)
    \/ \E i \in DOMAIN disc : PageReadError(i)
    \/ \E i \in DOMAIN disc : \E page \in Pages : PageText(i, page)
    \/ DiscoverFinish

SpecDiscovery == DiscoveryInit /\ [][DiscoveryNext]_vars


----------------------------------------------------------------------------
(* Claims about the discovery of one source after another.                 *)

\* the tasks of the sources that go to extract_pdf_urls_from_github_api, in a
\* step that keeps the task list
ApiTasksOfStep ==
    { i \in DOMAIN disc \cap DOMAIN disc' : disc[i].strategy = "api" }

\* the link to docs/spec.pdf on the branch master of the api source
MasterSpecLink ==
    [url |-> [host |-> "raw.githubusercontent.com", repo |-> 1,
              branch |-> "master",
              path |-> <<"d", "o", "c", "s", "/", "s", "p", "e", "c",
                         ".", "p", "d", "f">>,
              pdf |-> TRUE],
     filename |-> <<"s", "p", "e", "c", ".", "p", "d", "f">>]

\* the answer the task is reading is a listing all of whose items have a path
HoldsValidTree(t) ==
    /\ t.pc = "json"
    /\ t.data.kind = "tree"
    /\ \A j \in DOMAIN t.data.tree : t.data.tree[j].str

\* C16: an api task probes the branches in the order main, master, gh-pages,
\* docs, book, one after the other, and once a branch has answered with a
\* valid listing it returns without probing another branch.  When
\* main answered 404 and master answers with a listing that holds
\* docs/spec.pdf, the task returns exactly one link, the raw URL of
\* master/docs/spec.pdf, and gh-pages, docs and book are never requested.
C16_BranchOrder ==
    [][\A i \in ApiTasksOfStep :
          /\ branches = <<"main", "master", "gh-pages", "docs", "book">>
          /\ disc'[i].branch \in {disc[i].branch, disc[i].branch + 1}
          /\ disc'[i].branch > disc[i].branch => disc'[i].pc = "get"
          /\ disc[i].pc = "done" => disc'[i] = disc[i]
          /\ HoldsValidTree(disc[i]) /\ disc'[i] # disc[i]
                => /\ disc'[i].pc = "done"
                   /\ disc'[i].branch = disc[i].branch
          /\ ( /\ HoldsValidTree(disc[i])
               /\ disc[i].branch = 2
               /\ disc[i].before = "non200"
               /\ \E j \in DOMAIN disc[i].data.tree :
                      disc[i].data.tree[j].path = SpecPdfPath
               /\ disc'[i] # disc[i] )
                => /\ disc'[i].pdf_urls = <<MasterSpecLink>>
                   /\ disc'[i].pc = "done"
                   /\ disc'[i].branch = 2]_vars

\* main answered 404, master a listing with README and docs/spec.pdf, and the
\* task has returned the one link without a third request
C16_Witness ==
    \E i \in DOMAIN disc :
        /\ disc[i].strategy = "api"
        /\ disc[i].pc = "done"
        /\ disc[i].branch = 2
        /\ disc[i].before = "non200"
        /\ disc[i].final = "tree"
        /\ disc[i].pdf_urls = <<MasterSpecLink>>


\* C17 (as the claim states it): the links of one api task all come from
\* one branch, also when the walk of a listing raised part-way
C17_Original ==
    \A i \in DOMAIN disc :
        disc[i].strategy = "api" =>
            \A j, k \in DOMAIN disc[i].pdf_urls :
                disc[i].pdf_urls[j].url.branch = disc[i].pdf_urls[k].url.branch


\* the ways the fetch of a page ends without its text
FetchFailures == {"non200", "timeout", "error", "read_error"}

\* the tasks of a step that keeps the task list
TasksOfStep == DOMAIN disc \cap DOMAIN disc'

\* C18: a source whose fetch fails (status other than 200, time-out,
\* transport error) contributes no link; the failure touches no other task,
\* every task runs to its end before discovery returns, every link of every
\* task whose URL passes the filter is in the result, and discovery never
\* raises.
C18_FailedSourceAlone ==
    [][/\ pc' # "crashed"
       /\ \A i \in TasksOfStep :
              /\ ( /\ disc'[i].strategy \in {"markdown", "html"}
                   /\ disc'[i].final \in FetchFailures )
                    => disc'[i].pc = "done" /\ disc'[i].pdf_urls = <<>>
              /\ ( /\ disc[i].strategy = "api"
                   /\ disc[i].pc = "get"
                   /\ disc'[i].pc # "json" )
                    => disc'[i].pdf_urls = disc[i].pdf_urls
              /\ disc'[i] # disc[i]
                    => \A j \in TasksOfStep \ {i} : disc'[j] = disc[j]
       /\ pc = "discovering" /\ pc' # "discovering"
            => /\ pc' = "merge"
               /\ \A i \in DOMAIN disc : disc[i].pc = "done"
               /\ \A i \in DOMAIN disc : \A k \in DOMAIN disc[i].pdf_urls :
                      disc[i].pdf_urls[k].url.pdf
                          => \E m \in DOMAIN found' :
                                 found'[m].url = disc[i].pdf_urls[k].url
               /\ \A m \in DOMAIN found' :
                      \E i \in DOMAIN disc : \E k \in DOMAIN disc[i].pdf_urls :
                          disc[i].pdf_urls[k] = found'[m]]_vars

\* the markdown source timed out and has no link, while the api source and
\* the html source have returned with their links
C18_Witness ==
    /\ pc = "discovering"
    /\ \E i, j, k \in DOMAIN disc :
           /\ disc[i].strategy = "markdown"
           /\ disc[i].pc = "done"
           /\ disc[i].final = "timeout"
           /\ disc[i].pdf_urls = <<>>
           /\ disc[j].strategy = "html"
           /\ disc[j].pc = "done"
           /\ disc[j].final = "page"
           /\ disc[j].pdf_urls # <<>>
           /\ disc[k].strategy = "api"
           /\ disc[k].pc = "done"
           /\ disc[k].pdf_urls # <<>>


----------------------------------------------------------------------------
(* main_async from a fresh directory, with collect_pdf_urls_from_sources   *)
(* task by task in place of the one-step Discover.                         *)

\* the links the tasks of a discovery hold
LinksHeld(results) == Len(AllPdfUrls(results))

\* the links the walk of this answer appends
LinksOf(data) == Len(WalkTree(data.tree, PDF_SOURCE_URLS[1], branches[1]).links)

PhasesInit ==
    /\ pc = "start"
    /\ files = <<>>
    /\ found = <<>>
    /\ urls = <<>>
    /\ existing_files = {}
    /\ dl = <<>>
    /\ tasks = NoTasks
    /\ permits = 0
    /\ tally = NoTally
    /\ GateIdle
    /\ PlainRun

\* what the servers answer a download with here: a PDF that passes every
\* test, and a short page that download_pdf rejects
PhaseBodies ==
    { [sig |-> TRUE,  len |-> 2000, tag |-> 0],
      [sig |-> FALSE, len |-> 1000, tag |-> 0] }

\* the sources answer with at most MaxFound links in all
PhasesNext ==
    \/ InitialNameSweep
    \/ DiscoverStart
    \/ \E i \in DOMAIN disc : DiscEnter(i)
    \/ \E i \in DOMAIN disc : ApiNon200(i)
    \/ \E i \in DOMAIN disc : ApiGetError(i)
    \/ \E i \in DOMAIN disc : \E data \in ApiData :
           /\ LinksHeld(disc) + LinksOf(data) <= MaxFound
           /\ ApiStatus200(i, data)
    \/ \E i \in DOMAIN disc : ApiJsonError(i)
    \/ \E i \in DOMAIN disc : ApiNoTree(i)
    \/ \E i \in DOMAIN disc : ApiTree(i)
    \/ \E i \in DOMAIN disc : PageNon200(i)
    \/ \E i \in DOMAIN disc : PageTimeout(i)
    \/ \E i \in DOMAIN disc : PageGetError(i)
    \/ \E i \in DOMAIN disc : PageStatus200(i)
    \/ \E i \in DOMAIN disc : PageReadError(i)
    \/ \E i \in DOMAIN disc : \E page \in Pages :
           /\ LinksHeld(disc) + Len(page) <= MaxFound
           /\ PageText(i, page)
    \/ DiscoverFinish
    \/ Merge
    \/ DownloadStart
    \/ \E i \in DOMAIN dl : DlEnter(i)
    \/ \E i \in DOMAIN dl : DlHttpError(i)
    \/ \E i \in DOMAIN dl : DlTimeout(i)
    \/ \E i \in DOMAIN dl : DlError(i)
    \/ \E i \in DOMAIN dl : DlStatus200(i)
    \/ \E i \in DOMAIN dl : DlReadError(i)
    \/ \E i \in DOMAIN dl : \E content \in PhaseBodies : DlBody(i, content)
    \/ \E i \in DOMAIN dl : DlWake(i)
    \/ DownloadFinish
    \/ PostNameSweep
    \/ ContentSweepStart
    \/ \E n \in DOMAIN tasks : HashEnter(n)
    \/ \E n \in DOMAIN tasks : HashDone(n)
    \/ ContentSweepFinish
    \/ InvalidSweepStart
    \/ \E n \in DOMAIN tasks : VerifyEnter(n)
    \/ \E n \in DOMAIN tasks : VerifyDone(n)
    \/ InvalidSweepFinish
    \/ RenameStart
    \/ \E n \in DOMAIN tasks : RenameEnter(n)
    \/ \E n \in DOMAIN tasks : RenameTitle(n)
    \/ \E n \in DOMAIN tasks : \E new_filename \in FileNames \cup {NoName} :
           RenameApply(n, new_filename)
    \/ RenameFinish

SpecPhases == PhasesInit /\ [][PhasesNext]_vars


\* the place of a step of main_async in its order
PhaseRank(p) ==
    CASE p = "start" -> 0
      [] p = "discover" -> 1
      [] p = "discovering" -> 2
      [] p = "merge" -> 3
      [] p = "download_start" -> 4
      [] p = "download" -> 5
      [] p = "sweep_name" -> 6
      [] p = "sweep_content" -> 7
      [] p = "hashing" -> 8
      [] p = "sweep_invalid" -> 9
      [] p = "verifying" -> 10
      [] p = "rename" -> 11
      [] p = "renaming" -> 12
      [] p = "done" -> 13

\* C19: the phases never overlap.  Discovery tasks, download workers and the
\* tasks of a sweep or of the renaming never exist together; the tasks of a
\* phase go away only when every one of them has returned; a download
\* worker exists only after the discovery tasks are gone, a sweep or rename
\* task only after the workers are gone, and main_async never goes back to
\* an earlier step, so each sweep starts after the one before it has ended.
C19_PhasesInTurn ==
    [][/\ PhaseRank(pc') >= PhaseRank(pc)
       /\ disc' # NoDisc => pc' = "discovering" /\ dl' = <<>> /\ tasks' = NoTasks
       /\ dl' # <<>> => pc' = "download" /\ disc' = NoDisc /\ tasks' = NoTasks
       /\ tasks' # NoTasks
            => /\ pc' \in {"hashing", "verifying", "renaming"}
               /\ disc' = NoDisc
               /\ dl' = <<>>
       /\ disc # NoDisc /\ disc' = NoDisc
            => \A i \in DOMAIN disc : disc[i].pc = "done"
       /\ dl # <<>> /\ dl' = <<>>
            => \A i \in DOMAIN dl : dl[i].pc = "done"
       /\ tasks # NoTasks /\ tasks' = NoTasks
            => \A n \in DOMAIN tasks : tasks[n].pc = "done"
       /\ tasks # NoTasks /\ tasks' # NoTasks => pc' = pc
       /\ files' # files /\ pc \notin {"download", "renaming"}
            => disc = NoDisc /\ dl = <<>> /\ PhaseRank(pc') > PhaseRank(pc)]_vars

\* a download worker is at work on a link that discovery returned, and no
\* discovery task is left
C19_Witness ==
    /\ pc = "download"
    /\ disc = NoDisc
    /\ found # <<>>
    /\ \E i \in DOMAIN dl : dl[i].pc \notin {"queued", "done"} /\ dl[i].url = found[1].url


\* C20 (as the claim states it): main_async runs discovery, the merge with
\* the seed list, the removal of repeated URLs, the downloads and the sweeps
\* in that order, and no sweep deletes a file before all downloads of the
\* run have completed
C20_Original ==
    [][/\ PhaseRank(pc') >= PhaseRank(pc)
       /\ DeleteStep => PhaseRank(pc) > PhaseRank("download")]_vars

\* C20, amended: main_async first runs remove_duplicate_files once on the
\* directory as it finds it, which may delete files; then discovery, the
\* merge with the seed list and the removal of repeated URLs, the downloads,
\* and the sweeps, each step once and in that order.  After the first pass
\* no file is deleted until every download of the run has returned.
C20_InitialSweepThenFixedOrder ==
    [][/\ pc' # pc =>
            \/ pc = "start" /\ pc' = "discover"
            \/ pc = "discover" /\ pc' = "merge"
            \/ /\ pc = "merge"
               /\ pc' = "download_start"
               /\ urls' = DedupeByUrl(PDF_URLS \o found, {})
            \/ pc = "download_start" /\ pc' = "download"
            \/ /\ pc = "download"
               /\ pc' = "sweep_name"
               /\ \A i \in DOMAIN dl : dl[i].pc = "done"
            \/ PhaseRank(pc) > PhaseRank("download") /\ PhaseRank(pc') > PhaseRank(pc)
       /\ DeleteStep => pc = "start" \/ PhaseRank(pc) > PhaseRank("download")
       /\ DeleteStep /\ pc = "start" => pc' = "discover"]_vars

\* a run has ended in which a download wrote a file and a sweep, after the
\* downloads, deleted every file of the directory
C20_DeletedAfterDownloads ==
    /\ pc = "done"
    /\ tally.success = 1
    /\ DOMAIN files = {}


----------------------------------------------------------------------------
(* Claims about the list of links and the download workers.                *)

\* the entry at place j is the first of the list with its URL
FirstOfItsUrl(list, j) == \A k \in 1..(j - 1) : list[k].url # list[j].url

\* C21: the list handed to download_all_pdfs holds each URL at most once and
\* is made of the first entry of every URL of PDF_URLS + collected_urls, in
\* their order (seed entries before discovered ones, with the filename of
\* that entry); the download tasks, one per entry, have different URLs.
C21_EachUrlOnce ==
    [][/\ pc = "merge" /\ pc' # pc
            => LET all_urls == PDF_URLS \o found IN
               /\ \A j, k \in DOMAIN urls' : j # k => urls'[j].url # urls'[k].url
               /\ \A j \in DOMAIN all_urls :
                      FirstOfItsUrl(all_urls, j)
                          => \E m \in DOMAIN urls' : urls'[m] = all_urls[j]
               /\ \A m \in DOMAIN urls' :
                      \E j \in DOMAIN all_urls :
                          FirstOfItsUrl(all_urls, j) /\ urls'[m] = all_urls[j]
               /\ \A j \in DOMAIN PDF_URLS : urls'[j] = PDF_URLS[j]
       /\ \A i, j \in DOMAIN dl' : i # j => dl'[i].url # dl'[j].url
       /\ Len(dl') \in {0, Len(urls')}]_vars

\* discovery returned the URL of the seed entry under another filename, and
\* the one download task of that URL carries the filename of the seed entry
C21_SeedEntryKept ==
    /\ pc = "download"
    /\ \E j \in DOMAIN found :
           found[j].url = PDF_URLS[1].url /\ found[j].filename # PDF_URLS[1].filename
    /\ Len(dl) = 1
    /\ dl[1].url = PDF_URLS[1].url
    /\ dl[1].filename = PDF_URLS[1].filename


\* C22 (as the claim states it): of two download tasks of one phase with
\* different URLs and the same filename, at most one writes the file and at
\* most one returns success
C22_Original ==
    \A i, j \in DOMAIN dl :
        i # j /\ dl[i].url # dl[j].url /\ dl[i].filename = dl[j].filename
            => /\ ~(dl[i].wrote /\ dl[j].wrote)
               /\ ~(dl[i].outcome = "success" /\ dl[j].outcome = "success")


\* C23: in the rename pass a step that changes the directory gives one file
\* a name that no file had, and leaves every other file as it was: no rename
\* overwrites a file, and the directory holds as many files after every
\* step of the pass, and so after the pass, as before.
C23_RenameToFreeName ==
    [][pc = "renaming"
          => /\ Cardinality(DOMAIN files') = Cardinality(DOMAIN files)
             /\ files' # files
                  => \E old \in DOMAIN files : \E new \in DOMAIN files' :
                         /\ new # NoName
                         /\ new \notin DOMAIN files
                         /\ old \notin DOMAIN files'
                         /\ files'[new] = files[old]
                         /\ \A other \in DOMAIN files \ {old} :
                                other \in DOMAIN files' /\ files'[other] = files[other]]_vars

\* one task has renamed its file, and another has returned without renaming
\* while the directory still holds both files
C23_OneRenamedOneKept ==
    /\ pc = "renaming"
    /\ \E n, m \in DOMAIN tasks :
           /\ n # m
           /\ tasks[n].pc = "done" /\ tasks[n].result /\ n \notin DOMAIN files
           /\ tasks[m].pc = "done" /\ ~tasks[m].result /\ m \in DOMAIN files
    /\ Cardinality(DOMAIN files) = Cardinality(DOMAIN tasks)


\* the download tasks of a step that keeps the task list
WorkersOfStep == DOMAIN dl \cap DOMAIN dl'

\* C24 (as the claim states it): a worker that has received a status-200
\* response issues no further fetch: from awaiting the body it goes nowhere
\* but to its return, never back to the retry loop
C24_Original ==
    [][\A i \in WorkersOfStep :
          dl[i].pc = "read" => dl'[i].pc \in {"read", "done"}]_vars

\* C24, amended: once a worker has read the body of a status-200 response it
\* returns in that same step, with Success, Invalid or same-content, without
\* another fetch and for good, whether the body was written, rejected by
\* the signature/size test or rejected as duplicate content.  Only a failure
\* of the read itself, before any body is at hand, goes to the retry loop
\* (and so would a disk operation that raises, which this specification
\* leaves out).
C24_NoRetryAfterBody ==
    [][\A i \in WorkersOfStep :
          /\ dl'[i].body # dl[i].body
                => /\ dl[i].pc = "read"
                   /\ dl'[i].pc = "done"
                   /\ dl'[i].fetches = dl[i].fetches
                   /\ dl'[i].outcome \in {"success", "invalid", "same_content"}
          /\ dl'[i].outcome \in {"success", "invalid", "same_content"}
                /\ dl[i].outcome = "none"
                => dl'[i].body # NoBody /\ dl'[i].pc = "done"
          /\ dl[i].pc = "done" => dl'[i] = dl[i]
          /\ dl[i].pc = "read" /\ dl'[i].pc \notin {"read", "done"}
                => dl'[i].pc = "sleep" /\ dl'[i].body = NoBody]_vars

\* one worker was rejected for its content and another for duplicate
\* content, each after a single fetch
C24_RejectedOnce ==
    \E i \in DOMAIN dl :
        /\ dl[i].pc = "done"
        /\ dl[i].fetches = 1
        /\ dl[i].outcome = "invalid"
        /\ dl[i].body # NoBody
        /\ \E j \in DOMAIN dl :
               dl[j].pc = "done" /\ dl[j].fetches = 1 /\ dl[j].outcome = "same_content"


\* the workers that write their file in this step
WritersOfStep == { i \in WorkersOfStep : ~dl[i].wrote /\ dl'[i].wrote }

\* C25: while download_all_pdfs runs, existing_files only grows; a step adds
\* to it the filenames of the workers that write their file in that step
\* and nothing else; a worker writes exactly when it returns success; and
\* every name in existing_files is the name of a file of the directory.
C25_RegistryOfWrittenFiles ==
    [][/\ pc' = "download" => existing_files' \subseteq DOMAIN files'
       /\ pc = "download" /\ pc' = "download"
            => /\ existing_files \subseteq existing_files'
               /\ existing_files' =
                      existing_files \cup { dl[i].filename : i \in WritersOfStep }
               /\ \A i \in WorkersOfStep :
                      /\ i \in WritersOfStep
                            <=> dl[i].outcome = "none" /\ dl'[i].outcome = "success"
                      /\ i \in WritersOfStep
                            => /\ dl'[i].filename \in DOMAIN files'
                               /\ files'[dl'[i].filename] = dl'[i].body]_vars

\* one worker has written its file and its name is in existing_files, while
\* the name of a worker whose body was rejected is not
C25_WrittenNameRecorded ==
    /\ pc = "download"
    /\ \E i, j \in DOMAIN dl :
           /\ dl[i].wrote
           /\ ~dl[i].on_disk
           /\ dl[i].filename \in existing_files
           /\ dl[j].outcome = "invalid"
           /\ dl[j].filename \notin existing_files


----------------------------------------------------------------------------
(* Termination.  The pipeline and the gate-only model side by side, with   *)
(* weak fairness of every step: the event loop runs every task that can    *)
(* run, every request ends (with an answer, a time-out or an error) and    *)
(* every disk operation returns.                                           *)

LiveInit == Init \/ GateInit

LiveNext ==
    \/ Next
    \/ pc = "gate" /\ GateNext

SpecLive == LiveInit /\ [][LiveNext]_vars /\ WF_vars(LiveNext)

\* main_async has come to its end
PipelineEnded ==
    \/ pc = "done"
    \/ pc = "gate" /\ gphase = [phase |-> LastPhase, live |-> FALSE]

\* C26: with every request and every disk operation ending, main_async
\* reaches its end, and on the way no phase is left before every one of its
\* queued tasks has got its permit and returned: a download task with one
\* outcome, having entered and left the semaphore once; a task of a sweep
\* or of the renaming done; a fan-out of more tasks than permits with no
\* task waiting and no permit held.
C26_EveryTaskFinishes ==
    /\ <>PipelineEnded
    /\ [][/\ dl # <<>> /\ dl' = <<>>
              => \A i \in DOMAIN dl :
                     /\ dl[i].pc = "done"
                     /\ dl[i].outcome # "none"
                     /\ dl[i].acq = 1
                     /\ dl[i].rel = 1
          /\ tasks # NoTasks /\ tasks' = NoTasks
              => \A n \in DOMAIN tasks : tasks[n].pc = "done"
          /\ gphase.live /\ ~gphase'.live
              => gqueued = 0 /\ gheld = 0 /\ gdone' = gdone
          /\ PipelineEnded => PipelineEnded']_vars

\* every permit is taken and tasks are waiting at the gate
C26_TasksWaitAtFullGate ==
    /\ pc = "gate"
    /\ gphase.live
    /\ gheld = Concurrency
    /\ gqueued > 0


----------------------------------------------------------------------------
(* The fallback filename f"pdf_{hash(url) % 10000}.pdf".  hash() of a str  *)
(* is salted: the interpreter draws the salt when it starts (or takes it   *)
(* from PYTHONHASHSEED), so within one process equal strings have equal    *)
(* hashes and another process may give another value.                      *)

\* the salts a process may start with are 0..MaxSeed
MaxSeed == 2
\* fallback names one specification run computes
MaxNames == 3

HashSeeds == 0..MaxSeed

\* hash(url) for the URLs of the model under a salt: a value of fixed width
\* that depends on both, of which only the remainder by 10000 is used
StrHash(url, seed) == (url.id * 7919 + seed * 104729) % (2 ^ 30)

DecimalDigits == <<"0", "1", "2", "3", "4", "5", "6", "7", "8", "9">>

\* str(n) for n >= 0
RECURSIVE Decimal(_)
Decimal(n) ==
    IF n < 10 THEN <<DecimalDigits[n + 1]>>
    ELSE Decimal(n \div 10) \o <<DecimalDigits[(n % 10) + 1]>>

\* f"pdf_{hash(url) % 10000}.pdf"
SyntheticName(url, seed) ==
    <<"p", "d", "f", "_">> \o Decimal(StrHash(url, seed) % 10000) \o DotPdf

\* the extract functions that compute the fallback name
Extractors == {"html", "markdown", "api"}

\* a process has started with its salt; no name computed yet
NamesInit ==
    /\ pc = "names"
    /\ rerun \in [n : {1}, responses : {<<>>}, hashseed : HashSeeds]
    /\ found = <<>>
    /\ files = <<>>
    /\ urls = <<>>
    /\ existing_files = {}
    /\ dl = <<>>
    /\ tasks = NoTasks
    /\ permits = 0
    /\ tally = NoTally
    /\ GateIdle
    /\ disc = NoDisc
    /\ unlinks = NoUnlinks

\* a discovery task finds a link without a usable name and makes one
FallbackName(by, url) ==
    /\ pc = "names"
    /\ Len(found) < MaxNames
    /\ found' = Append(found, [url |-> url,
                               filename |-> SyntheticName(url, rerun.hashseed),
                               by |-> by, run |-> rerun.n])
    /\ UNCHANGED <<pc, files, urls, existing_files, dl, tasks, permits, tally>>
    /\ UNCHANGED <<disc, rerun, unlinks>>
    /\ UNCHANGED gateVars

\* the program ends and is started again: a new interpreter, a new salt
NewProcess ==
    /\ pc = "names"
    /\ rerun.n = 1
    /\ \E seed \in HashSeeds :
           rerun' = [rerun EXCEPT !.n = 2, !.hashseed = seed]
    /\ UNCHANGED <<pc, files, found, urls, existing_files, dl, tasks, permits, tally>>
    /\ UNCHANGED <<disc, unlinks>>
    /\ UNCHANGED gateVars

NamesNext ==
    \/ \E by \in Extractors : \E url \in Urls : FallbackName(by, url)
    \/ NewProcess

SpecNames == NamesInit /\ [][NamesNext]_vars

\* C27 (as the claim states it): the same URL gets the same fallback name
\* in every discovery task and in every run of the program
C27_Original ==
    \A j, k \in DOMAIN found :
        found[j].url = found[k].url => found[j].filename = found[k].filename


----------------------------------------------------------------------------
(* The dispatch of collect_pdf_urls_from_sources over source URLs of every *)
(* shape its tests tell apart.                                             *)

\* sources one specification run dispatches
MaxSources == 2

\* a source URL by what the tests of the dispatch see in it
SourceShapes ==
    [id : {0}, github : BOOLEAN, raw_or_blob : BOOLEAN, md : BOOLEAN,
     rawhost : BOOLEAN, repo : {FALSE}]

DispatchInit ==
    /\ pc = "dispatch"
    /\ disc = <<>>
    /\ rerun = FirstRun
    /\ unlinks = NoUnlinks
    /\ files = <<>>
    /\ found = <<>>
    /\ urls = <<>>
    /\ existing_files = {}
    /\ dl = <<>>
    /\ tasks = NoTasks
    /\ permits = 0
    /\ tally = NoTally
    /\ GateIdle

\* one turn of "for i, source_url in enumerate(PDF_SOURCE_URLS, 1)": the
\* task of the extract function the source goes to is appended
Dispatch(source_url) ==
    /\ pc = "dispatch"
    /\ Len(disc) < MaxSources
    /\ disc' = Append(disc, NewDiscTask(source_url))
    /\ UNCHANGED <<pc, files, found, urls, existing_files, dl, tasks, permits, tally>>
    /\ UNCHANGED <<rerun, unlinks>>
    /\ UNCHANGED gateVars

DispatchNext == \E source_url \in SourceShapes : Dispatch(source_url)

SpecDispatch == DispatchInit /\ [][DispatchNext]_vars

\* C28 (as the claim states it): a source ending in .md goes to markdown;
\* otherwise one that contains the repository host and neither /raw/ nor
\* /blob/ goes to api; every other source goes to html
C28_Original ==
    \A i \in DOMAIN disc :
        LET s == disc[i].source IN
        disc[i].strategy =
            IF s.md THEN "markdown"
            ELSE IF s.github /\ ~s.raw_or_blob THEN "api"
            ELSE "html"

\* C28, amended: every source gets one task, of exactly one strategy: a
\* source ending in .md goes to markdown; otherwise one that contains
\* github.com and neither /raw/ nor /blob/ goes to api; otherwise one that
\* contains raw.githubusercontent.com goes to markdown; every other source
\* goes to html.
C28_DispatchByShape ==
    [][/\ Len(disc') = Len(disc) + 1
       /\ \A i \in DOMAIN disc : disc'[i] = disc[i]
       /\ \A i \in DOMAIN disc' :
              LET s == disc'[i].source IN
              disc'[i].strategy =
                  IF s.md THEN "markdown"
                  ELSE IF s.github /\ ~s.raw_or_blob THEN "api"
                  ELSE IF s.rawhost THEN "markdown"
                  ELSE "html"]_vars

\* a source on raw.githubusercontent.com that does not end in .md has been
\* given to the markdown function
C28_RawHostToMarkdown ==
    \E i \in DOMAIN disc :
        /\ disc[i].source.rawhost
        /\ ~disc[i].source.md
        /\ ~disc[i].source.github
        /\ disc[i].strategy = "markdown"


----------------------------------------------------------------------------
\* the names in the directory that no worker of this download phase has
\* written: at every moment of the phase, the files that were there when it
\* started
FilesFromPhaseStart ==
    { n \in DOMAIN files :
        \A i \in DOMAIN dl : ~(dl[i].wrote /\ dl[i].filename = n) }

\* C29: the download phase never overwrites, modifies or deletes a file that
\* was in the directory when the phase started: no step of the phase, from
\* the glob of download_all_pdfs to the end of the gather, removes such a
\* file or changes its content, and a worker whose filename was on disk at
\* the start never writes.
C29_StartFilesUntouched ==
    [][/\ pc = "download_start" =>
              /\ files' = files
              /\ \A i \in DOMAIN dl' : ~dl'[i].wrote
       /\ pc = "download" =>
              /\ \A n \in FilesFromPhaseStart :
                     /\ n \in DOMAIN files'
                     /\ files'[n] = files[n]
              /\ pc' = "download" => FilesFromPhaseStart' = FilesFromPhaseStart
              /\ \A i \in WorkersOfStep : dl'[i].on_disk => ~dl'[i].wrote]_vars

\* a worker whose filename was on disk at the start has returned without a
\* fetch while another worker of the phase has written its file
C29_ExistingSkippedOtherWritten ==
    /\ pc = "download"
    /\ \E i, j \in DOMAIN dl :
           /\ dl[i].on_disk
           /\ dl[i].pc = "done"
           /\ dl[i].fetches = 0
           /\ dl[i].filename \in FilesFromPhaseStart
           /\ dl[j].wrote
           /\ dl[j].filename # dl[i].filename


----------------------------------------------------------------------------
(* C30 as stated: the duplicate-name sweep deletes only files whose name   *)
(* matches the numbered-variant pattern <base>_<number>.pdf, and every     *)
(* content digest present in the directory before the sweep is still       *)
(* carried by some file after it.                                          *)
C30_Original ==
    [][NameSweepStep =>
          /\ \A n \in DOMAIN files \ DOMAIN files' : IsNumbered(n)
          /\ \A n \in DOMAIN files :
                 \E m \in DOMAIN files' :
                     get_file_hash(files', m) = get_file_hash(files, n)]_vars


----------------------------------------------------------------------------
(* From discovery to the download workers.                                 *)

\* the URLs of a list of links
UrlsOf(list) == { list[k].url : k \in DOMAIN list }

\* the download tasks of a task list that carry the URL u
WorkersOfUrl(workers, u) == { i \in DOMAIN workers : workers[i].url = u }

\* the step that ends discovery, the merge, and the creation of the workers
GatherStep == pc = "discovering" /\ pc' = "merge"
MergeStep == pc = "merge" /\ pc' = "download_start"
HandOverStep == pc = "download_start" /\ pc' = "download"

\* C31 (as the claim states it): every distinct URL that is in the seed list
\* or was emitted by some discovery task is handed to exactly one download
\* worker of the run: every URL of a task's result is in what discovery
\* returns, every seed and returned URL is in the merged list, and every
\* URL of the merged list has exactly one worker
C31_Original ==
    [][/\ GatherStep => UrlsOf(AllPdfUrls(disc)) \subseteq UrlsOf(found')
       /\ MergeStep => UrlsOf(PDF_URLS) \cup UrlsOf(found) \subseteq UrlsOf(urls')
       /\ HandOverStep =>
              \A u \in UrlsOf(urls) : Cardinality(WorkersOfUrl(dl', u)) = 1]_vars

\* C31, amended: every distinct URL that is in the seed list, or was emitted
\* by some discovery task and passes the filter at the end of discovery (it
\* ends in .pdf, or names github.com or raw.githubusercontent.com), is handed
\* to exactly one download worker of the run; an emitted URL that does not
\* pass the filter is left out of what discovery returns, and nothing
\* changes the lists between the three steps.
C31_FilteredThenHandedOver ==
    [][/\ GatherStep =>
              UrlsOf(found') = { u \in UrlsOf(AllPdfUrls(disc)) : u.pdf }
       /\ MergeStep =>
              UrlsOf(urls') = UrlsOf(PDF_URLS) \cup UrlsOf(found)
       /\ HandOverStep =>
              /\ \A u \in UrlsOf(urls) : Cardinality(WorkersOfUrl(dl', u)) = 1
              /\ \A i \in DOMAIN dl' : dl'[i].url \in UrlsOf(urls)
       /\ pc = "merge" => found' = found
       /\ pc = "download_start" => urls' = urls /\ found' = found]_vars

\* a URL that a discovery task emitted has its one worker, beside the worker
\* of the seed URL
C31_DiscoveredUrlHasWorker ==
    /\ pc = "download"
    /\ found # <<>>
    /\ found[1].url \notin UrlsOf(PDF_URLS)
    /\ Cardinality(WorkersOfUrl(dl, found[1].url)) = 1
    /\ \A u \in UrlsOf(PDF_URLS) : Cardinality(WorkersOfUrl(dl, u)) = 1

====
